---- MODULE Spec2Model ----
(***************************************************************************)
(* capi-advisor: the dependency tree builder (pkg/tree/builder.go) and the *)
(* status derivation of component discovery (pkg/analyzer/discovery.go)    *)
(* and the analysis of the discovered records (pkg/advisor/advisor.go).    *)
(*                                                                         *)
(* A component is a record of the input sequence; a pointer to a component *)
(* is its position in that sequence, 0 is nil.                             *)
(***************************************************************************)
EXTENDS Integers, Sequences, FiniteSets, TLC

VARIABLES
    components,     \* the []*Component handed to BuildDependencyTree / built by discovery
    Parent,         \* Parent[i]   : Component.Parent of components[i] (0 = nil)
    Children,       \* Children[i] : Component.Children of components[i]
    tb_components,  \* TreeBuilder.components: key -> position
    pc,             \* position in BuildDependencyTree
    i,              \* index of the relationship loop (builder.go:30)
    roots,          \* the value BuildDependencyTree returns
    run,            \* which call of BuildDependencyTree is in progress (1 or 2)
    mode,           \* how the second call was started: "single" | "again" | "fresh"
    first,          \* result of the first call, kept for comparison with the second
    result,         \* the AnalysisResult AnalyzeComponents returns (NoResult before)
    scan,           \* the loop of an AnalyzeComponents that runs beside the build
    output          \* the lines PrintTree returns (none before)

vars == <<components, Parent, Children, tb_components, pc, i, roots, run, mode, first,
          result, scan, output>>

(***************************************************************************)
(* Bounds                                                                  *)
(***************************************************************************)
MaxRecs == 4        \* longest input sequence of the builder specification
MaxTwice == 3       \* longest input sequence when the builder is called twice
MaxConds == 3       \* longest condition sequence of the status specification

(***************************************************************************)
(* pkg/analyzer/types.go: component types and statuses                     *)
(***************************************************************************)
ClusterType == "Cluster"
MachineType == "Machine"
MachineSetType == "MachineSet"
MachineDeploymentType == "MachineDeployment"
Metal3MachineType == "Metal3Machine"
Metal3ClusterType == "Metal3Cluster"
BareMetalHostType == "BareMetalHost"
KubeadmControlPlaneType == "KubeadmControlPlane"
KubeadmConfigType == "KubeadmConfig"

StatusHealthy == "Healthy"
StatusDegraded == "Degraded"
StatusFailed == "Failed"
StatusPending == "Pending"
StatusUnknown == "Unknown"

ConditionTrue == "True"
ConditionFalse == "False"
ConditionUnknown == "Unknown"

(***************************************************************************)
(* Untyped documents (Component.Metadata).  A field of a nested map is a   *)
(* string, Absent (no such key) or WrongType (a value of another type).    *)
(***************************************************************************)
Absent == "<absent>"
WrongType == "<wrongtype>"
IsString(v) == v \notin {Absent, WrongType}

\* Component (types.go:22-32).  hasSpec: Metadata["spec"] is a map;
\* hasMetadata: Metadata["metadata"] is a map; ownerReferences: its
\* "ownerReferences" slice (<<>> also stands for an absent slice).
Component(type, ns, name, hasSpec, cn, infra, boot, cp, sel, hasMeta, owners) ==
    [Type |-> type, Namespace |-> ns, Name |-> name,
     hasSpec |-> hasSpec, clusterName |-> cn, infrastructureRef |-> infra,
     bootstrapConfigRef |-> boot, controlPlaneRef |-> cp, hostSelector |-> sel,
     hasMetadata |-> hasMeta, ownerReferences |-> owners,
     Conditions |-> <<>>, Status |-> ""]

Plain(type, ns, name) ==
    Component(type, ns, name, FALSE, Absent, Absent, Absent, Absent, Absent, FALSE, <<>>)

OwnerRef(kind, name) == [kind |-> kind, name |-> name]

\* The records inputs are drawn from: two namespaces, two names, every kind,
\* every reference field, an infrastructureRef shared by two Machines, records
\* without spec, a wrong-typed field, references that resolve in one
\* namespace only and an owner in another namespace.
Universe ==
    { Component(ClusterType, "n1", "a", TRUE, Absent, "a", Absent, "a", Absent, FALSE, <<>>),
      Plain(KubeadmControlPlaneType, "n1", "a"),
      Plain(Metal3ClusterType, "n1", "a"),
      Plain(MachineDeploymentType, "n1", "a"),
      Component(MachineSetType, "n1", "a", FALSE, Absent, Absent, Absent, Absent, Absent,
                TRUE, <<OwnerRef("MachineDeployment", "a")>>),
      Component(MachineType, "n1", "a", TRUE, "a", "a", "a", Absent, Absent,
                TRUE, <<OwnerRef("MachineSet", "a")>>),
      Component(MachineType, "n1", "b", TRUE, WrongType, "a", Absent, Absent, Absent,
                TRUE, <<OwnerRef("KubeadmControlPlane", "a"), OwnerRef("MachineSet", "a")>>),
      Component(MachineType, "n2", "a", TRUE, "a", "a", Absent, Absent, Absent,
                TRUE, <<OwnerRef("MachineSet", "a")>>),
      Plain(Metal3MachineType, "n2", "a"),
      Component(Metal3MachineType, "n1", "a", TRUE, Absent, Absent, Absent, Absent, "sel", FALSE, <<>>),
      Component(Metal3MachineType, "n1", "b", TRUE, Absent, Absent, Absent, Absent, "sel", FALSE, <<>>),
      Plain(BareMetalHostType, "n1", "a"),
      Plain(BareMetalHostType, "n1", "b"),
      Plain(KubeadmConfigType, "n1", "a") }

(***************************************************************************)
(* Helpers                                                                 *)
(***************************************************************************)
N == Len(components)
\* no AnalysisResult yet: AnalyzeComponents has not returned
NoResult == <<>>
\* AnalyzeComponents not running as a pass of its own
NoScan == [at |-> 0, issues |-> <<>>, start |-> ""]
Range(f) == {f[k] : k \in DOMAIN f}
Count(seq, x) == Cardinality({k \in DOMAIN seq : seq[k] = x})
NoEdges(n) == [Parent |-> [k \in 1..n |-> 0], Children |-> [k \in 1..n |-> <<>>]]

\* Every order in which a Go `range` over a map can yield the entries S.
RECURSIVE IterationOrders(_)
IterationOrders(S) ==
    IF S = {} THEN {<<>>}
    ELSE UNION {{<<x>> \o o : o \in IterationOrders(S \ {x})} : x \in S}

(***************************************************************************)
(* pkg/tree/builder.go                                                     *)
(***************************************************************************)
getComponentKey(comp) == comp.Namespace \o "/" \o comp.Name \o "/" \o comp.Type

\* builder.go:24-27: later records overwrite earlier ones with the same key.
RECURSIVE IndexLoop(_, _)
IndexLoop(k, m) ==
    IF k > N THEN m
    ELSE LET key == getComponentKey(components[k])
         IN IndexLoop(k + 1, [x \in (DOMAIN m) \cup {key} |-> IF x = key THEN k ELSE m[x]])

\* setParentChild without its `child.Parent == nil` test
setParentChild_NoGuard(g, parent, child) ==
    [Parent |-> [g.Parent EXCEPT ![child] = parent],
     Children |-> [g.Children EXCEPT ![parent] = Append(@, child)]]

\* setParentChild with the append outside the test
setParentChild_AppendAlways(g, parent, child) ==
    [Parent |-> IF g.Parent[child] = 0 THEN [g.Parent EXCEPT ![child] = parent]
                ELSE g.Parent,
     Children |-> [g.Children EXCEPT ![parent] = Append(@, child)]]

\* builder.go:196-201; g is the pair of Parent and Children of all records.
setParentChild(g, parent, child) ==
    IF g.Parent[child] = 0
    THEN [Parent |-> [g.Parent EXCEPT ![child] = parent],
          Children |-> [g.Children EXCEPT ![parent] = Append(@, child)]]
    ELSE g

\* findComponent without the namespace comparison
findComponent_AnyNamespace(name, namespace, compType) ==
    LET hits == {p \in Range(tb_components) :
                    /\ components[p].Name = name
                    /\ components[p].Type = compType}
    IN IF hits = {} THEN 0 ELSE CHOOSE p \in hits : TRUE

\* builder.go:159-166: the keys are unique, so at most one entry matches and
\* the iteration order of the map does not matter.
findComponent(name, namespace, compType) ==
    LET hits == {p \in Range(tb_components) :
                    /\ components[p].Name = name
                    /\ components[p].Namespace = namespace
                    /\ components[p].Type = compType}
    IN IF hits = {} THEN 0 ELSE CHOOSE p \in hits : TRUE

\* builder.go:179-194
isOwnedBy(comp, ownerName, ownerKind) ==
    /\ comp.hasMetadata
    /\ \E r \in 1..Len(comp.ownerReferences) :
          /\ comp.ownerReferences[r].name = ownerName
          /\ comp.ownerReferences[r].kind = ownerKind

\* One forward reference (builder.go:72-78 and alike): `ref` is the name
\* field of the reference object, looked up in the namespace of `self`.
LinkRef(g, self, ref, compType, selfIsParent) ==
    IF IsString(ref)
    THEN LET target == findComponent(ref, components[self].Namespace, compType)
         IN IF target # 0
            THEN IF selfIsParent THEN setParentChild(g, self, target)
                                 ELSE setParentChild(g, target, self)
            ELSE g
    ELSE g

\* buildMachineRelationships with the arguments of the Cluster edge swapped
buildMachineRelationships_ClusterAsChild(g, machine) ==
    LET m == components[machine] IN
    IF m.hasSpec
    THEN LET g1 == LinkRef(g, machine, m.clusterName, ClusterType, TRUE)
             g2 == LinkRef(g1, machine, m.infrastructureRef, Metal3MachineType, TRUE)
         IN LinkRef(g2, machine, m.bootstrapConfigRef, KubeadmConfigType, TRUE)
    ELSE g

\* builder.go:62-89
buildMachineRelationships(g, machine) ==
    LET m == components[machine] IN
    IF m.hasSpec
    THEN LET g1 == LinkRef(g, machine, m.clusterName, ClusterType, FALSE)
             g2 == LinkRef(g1, machine, m.infrastructureRef, Metal3MachineType, TRUE)
         IN LinkRef(g2, machine, m.bootstrapConfigRef, KubeadmConfigType, TRUE)
    ELSE g

\* buildClusterRelationships that returns when the infrastructureRef finds
\* nothing
buildClusterRelationships_StopAtMissing(g, cluster) ==
    LET c == components[cluster] IN
    IF /\ c.hasSpec
       /\ IsString(c.infrastructureRef)
       /\ findComponent(c.infrastructureRef, c.Namespace, Metal3ClusterType) # 0
    THEN LET g1 == LinkRef(g, cluster, c.infrastructureRef, Metal3ClusterType, TRUE)
         IN LinkRef(g1, cluster, c.controlPlaneRef, KubeadmControlPlaneType, TRUE)
    ELSE g

\* builder.go:126-146
buildClusterRelationships(g, cluster) ==
    LET c == components[cluster] IN
    IF c.hasSpec
    THEN LET g1 == LinkRef(g, cluster, c.infrastructureRef, Metal3ClusterType, TRUE)
         IN LinkRef(g1, cluster, c.controlPlaneRef, KubeadmControlPlaneType, TRUE)
    ELSE g

\* The body of the ownership scans (builder.go:93-99, 104-110, 150-156) for
\* one iteration order `ord` of the map entries of the child kind.
RECURSIVE OwnerScan(_, _, _, _)
OwnerScan(g, owner, ownerKind, ord) ==
    IF ord = <<>> THEN g
    ELSE LET comp == Head(ord)
             g1 == IF isOwnedBy(components[comp], components[owner].Name, ownerKind)
                   THEN setParentChild(g, owner, comp) ELSE g
         IN OwnerScan(g1, owner, ownerKind, Tail(ord))

\* The map entries of one type: the entries a scan does not skip.
EntriesOfType(compType) == {p \in Range(tb_components) : components[p].Type = compType}

\* builder.go:168-177: the first BareMetalHost of the namespace in the
\* iteration order of the map, whatever its Parent; the selector is not read.
BareMetalHostCandidates(namespace) ==
    {p \in Range(tb_components) :
        components[p].Type = BareMetalHostType /\ components[p].Namespace = namespace}

\* buildMetal3MachineRelationships with the host as the parent
buildMetal3MachineRelationships_HostAsParent(g, metal3Machine, bmh) ==
    LET m == components[metal3Machine] IN
    IF m.hasSpec /\ m.hostSelector \notin {Absent, WrongType} /\ bmh # 0
    THEN setParentChild(g, bmh, metal3Machine)
    ELSE g

\* builder.go:113-124 for the host `bmh` that findBareMetalHostBySelector returned
buildMetal3MachineRelationships(g, metal3Machine, bmh) ==
    LET m == components[metal3Machine] IN
    IF m.hasSpec /\ m.hostSelector \notin {Absent, WrongType} /\ bmh # 0
    THEN setParentChild(g, metal3Machine, bmh)
    ELSE g

(***************************************************************************)
(* BuildDependencyTree (builder.go:22-43) as a state machine               *)
(***************************************************************************)
G == [Parent |-> Parent, Children |-> Children]

InputSeqs(n) == UNION {[1..k -> Universe] : k \in 1..n}

InitOver(inputs) ==
    /\ components \in inputs
    /\ Parent = NoEdges(Len(components)).Parent
    /\ Children = NoEdges(Len(components)).Children
    /\ tb_components = <<>>
    /\ pc = "index"
    /\ i = 1
    /\ roots = <<>>
    /\ run = 1
    /\ mode = "single"
    /\ first = <<>>
    /\ result = NoResult
    /\ scan = NoScan
    /\ output = <<>>

Init == InitOver(InputSeqs(MaxRecs))

\* builder.go:24-27
IndexComponents ==
    /\ pc = "index"
    /\ tb_components' = IndexLoop(1, tb_components)
    /\ pc' = "build"
    /\ i' = 1
    /\ UNCHANGED <<components, Parent, Children, roots, run, mode, first, result, scan, output>>

Step(g) ==
    /\ Parent' = g.Parent
    /\ Children' = g.Children
    /\ i' = i + 1
    /\ UNCHANGED <<components, tb_components, pc, roots, run, mode, first, result, scan, output>>

AtKind(compType) == pc = "build" /\ i <= N /\ components[i].Type = compType

\* builder.go:47-48
BuildMachine ==
    /\ AtKind(MachineType)
    /\ Step(buildMachineRelationships(G, i))

\* builder.go:49-50
BuildMachineSet ==
    /\ AtKind(MachineSetType)
    /\ \E ord \in IterationOrders(EntriesOfType(MachineType)) :
          Step(OwnerScan(G, i, "MachineSet", ord))

\* builder.go:51-52
BuildMachineDeployment ==
    /\ AtKind(MachineDeploymentType)
    /\ \E ord \in IterationOrders(EntriesOfType(MachineSetType)) :
          Step(OwnerScan(G, i, "MachineDeployment", ord))

\* builder.go:53-54
BuildMetal3Machine ==
    /\ AtKind(Metal3MachineType)
    /\ LET cands == BareMetalHostCandidates(components[i].Namespace)
       IN \E bmh \in (IF cands = {} THEN {0} ELSE cands) :
             Step(buildMetal3MachineRelationships(G, i, bmh))

\* builder.go:55-56
BuildCluster ==
    /\ AtKind(ClusterType)
    /\ Step(buildClusterRelationships(G, i))

\* builder.go:57-58
BuildKubeadmControlPlane ==
    /\ AtKind(KubeadmControlPlaneType)
    /\ \E ord \in IterationOrders(EntriesOfType(MachineType)) :
          Step(OwnerScan(G, i, "KubeadmControlPlane", ord))

\* builder.go:46-59: the switch has no case for the other types
BuildOther ==
    /\ pc = "build" /\ i <= N
    /\ components[i].Type \in {Metal3ClusterType, BareMetalHostType, KubeadmConfigType}
    /\ Step(G)

\* the root collection without the test for a nil Parent
RootsOf_All(par) == [k \in 1..N |-> k]

\* builder.go:34-42
RootsOf(par) == SelectSeq([k \in 1..N |-> k], LAMBDA k : par[k] = 0)

CollectRoots ==
    /\ pc = "build" /\ i > N
    /\ roots' = RootsOf(Parent)
    /\ pc' = "done"
    /\ UNCHANGED <<components, Parent, Children, tb_components, i, run, mode, first, result, scan, output>>

Build ==
    \/ IndexComponents
    \/ BuildMachine
    \/ BuildMachineSet
    \/ BuildMachineDeployment
    \/ BuildMetal3Machine
    \/ BuildCluster
    \/ BuildKubeadmControlPlane
    \/ BuildOther
    \/ CollectRoots

Next == Build

Spec == Init /\ [][Next]_vars

\* BuildDependencyTree is a sequential loop: a step that can be taken is taken
MaxComplete == 3
InitComplete == InitOver(InputSeqs(MaxComplete))
SpecComplete == InitComplete /\ [][Next]_vars /\ WF_vars(Next)

(***************************************************************************)
(* BuildDependencyTree called a second time on the same input: either on   *)
(* the records as the first call left them, or on the same records as      *)
(* discovery built them (another run of the program on the same input).    *)
(***************************************************************************)
Result == [Parent |-> Parent, Children |-> Children, roots |-> roots]

BuildAgain ==
    /\ pc = "done" /\ run = 1
    /\ first' = Result
    /\ run' = 2
    /\ mode' = "again"
    /\ pc' = "index"
    /\ i' = 1
    /\ roots' = <<>>
    /\ UNCHANGED <<components, Parent, Children, tb_components, result, scan, output>>

BuildFresh ==
    /\ pc = "done" /\ run = 1
    /\ first' = Result
    /\ run' = 2
    /\ mode' = "fresh"
    /\ pc' = "index"
    /\ i' = 1
    /\ roots' = <<>>
    /\ Parent' = NoEdges(N).Parent
    /\ Children' = NoEdges(N).Children
    /\ tb_components' = <<>>
    /\ UNCHANGED <<components, result, scan, output>>

InitTwice == InitOver(InputSeqs(MaxTwice))

NextTwice == Build \/ BuildAgain \/ BuildFresh

SpecTwice == InitTwice /\ [][NextTwice]_vars

(***************************************************************************)
(* pkg/analyzer/discovery.go: status derivation                            *)
(***************************************************************************)
\* a metav1.Condition: type, status, reason and message
ConditionWith(type, status, reason, message) ==
    [Type |-> type, Status |-> status, Reason |-> reason, Message |-> message]

\* a condition that carries no reason and no message
Condition(type, status) == ConditionWith(type, status, "", "")

ReadyTypes == {"Ready", "Available"}
PartTypes == {"InfrastructureReady", "BootstrapReady", "ControlPlaneReady"}

\* Condition types and states inputs are drawn from: the five types the code
\* names and one it does not; the three states and an unset state.
ConditionTypes == ReadyTypes \cup PartTypes \cup {"Synced"}
ConditionStates == {ConditionTrue, ConditionFalse, ConditionUnknown, ""}
ConditionValues == {Condition(t, s) : t \in ConditionTypes, s \in ConditionStates}

\* discovery.go:194-207: the first loop from position k on; "" when the
\* loop ends without returning.
RECURSIVE CriticalScan(_, _)
CriticalScan(conditions, k) ==
    IF k > Len(conditions) THEN ""
    ELSE LET condition == conditions[k] IN
         IF condition.Type \in ReadyTypes /\ condition.Status = ConditionFalse
            THEN StatusFailed
         ELSE IF condition.Type \in ReadyTypes /\ condition.Status = ConditionTrue
            THEN StatusHealthy
         ELSE IF condition.Type \in PartTypes /\ condition.Status = ConditionFalse
            THEN StatusDegraded
         ELSE CriticalScan(conditions, k + 1)

\* determineComponentStatus with the Unknown loop before the False loop
determineComponentStatus_PendingFirst(conditions) ==
    IF Len(conditions) = 0 THEN StatusUnknown
    ELSE IF CriticalScan(conditions, 1) # "" THEN CriticalScan(conditions, 1)
    ELSE IF \E k \in DOMAIN conditions : conditions[k].Status = ConditionUnknown
        THEN StatusPending
    ELSE IF \E k \in DOMAIN conditions : conditions[k].Status = ConditionFalse
        THEN StatusDegraded
    ELSE StatusHealthy

\* discovery.go:188-224
determineComponentStatus(conditions) ==
    IF Len(conditions) = 0 THEN StatusUnknown
    ELSE IF CriticalScan(conditions, 1) # "" THEN CriticalScan(conditions, 1)
    ELSE IF \E k \in DOMAIN conditions : conditions[k].Status = ConditionFalse
        THEN StatusDegraded
    ELSE IF \E k \in DOMAIN conditions : conditions[k].Status = ConditionUnknown
        THEN StatusPending
    ELSE StatusHealthy

ConditionSeqs(n) == UNION {[1..k -> ConditionValues] : k \in 0..n}

\* discovery.go:123-149: a component as convertUnstructuredToComponent has
\* built it before it derives the status.
InitStatus ==
    /\ \E conds \in ConditionSeqs(MaxConds), type \in {MachineType, BareMetalHostType} :
          components = <<[Plain(type, "n1", "a") EXCEPT !.Conditions = conds]>>
    /\ Parent = NoEdges(1).Parent
    /\ Children = NoEdges(1).Children
    /\ tb_components = <<>>
    /\ pc = "convert"
    /\ i = 1
    /\ roots = <<>>
    /\ run = 1
    /\ mode = "single"
    /\ first = <<>>
    /\ result = NoResult
    /\ scan = NoScan
    /\ output = <<>>

\* discovery.go:150-153
ConvertStatus ==
    /\ pc = "convert"
    /\ components' = [components EXCEPT
                         ![1].Status = determineComponentStatus(components[1].Conditions)]
    /\ pc' = "converted"
    /\ UNCHANGED <<Parent, Children, tb_components, i, roots, run, mode, first, result, scan, output>>

NextStatus == ConvertStatus

SpecStatus == InitStatus /\ [][NextStatus]_vars

(***************************************************************************)
(* pkg/advisor/advisor.go: the knowledge base                              *)
(***************************************************************************)
SeverityCritical == "Critical"
SeverityWarning == "Warning"
SeverityInfo == "Info"

\* strings.ToLower on the letters A-Z
LowerOf ==
    "A" :> "a" @@ "B" :> "b" @@ "C" :> "c" @@ "D" :> "d" @@ "E" :> "e" @@
    "F" :> "f" @@ "G" :> "g" @@ "H" :> "h" @@ "I" :> "i" @@ "J" :> "j" @@
    "K" :> "k" @@ "L" :> "l" @@ "M" :> "m" @@ "N" :> "n" @@ "O" :> "o" @@
    "P" :> "p" @@ "Q" :> "q" @@ "R" :> "r" @@ "S" :> "s" @@ "T" :> "t" @@
    "U" :> "u" @@ "V" :> "v" @@ "W" :> "w" @@ "X" :> "x" @@ "Y" :> "y" @@
    "Z" :> "z"

RECURSIVE ToLower(_)
ToLower(s) ==
    IF Len(s) = 0 THEN ""
    ELSE LET c == SubSeq(s, 1, 1) IN
         (IF c \in DOMAIN LowerOf THEN LowerOf[c] ELSE c)
            \o ToLower(SubSeq(s, 2, Len(s)))

\* strings.Contains
Contains(s, substr) ==
    \E k \in 0..(Len(s) - Len(substr)) : SubSeq(s, k + 1, k + Len(substr)) = substr

\* advisor.go:32-166: key -> KnowledgeEntry
knowledgeBase ==
    "Cluster.Ready.False" :>
        [Condition |-> "Cluster Ready is False",
         Severity |-> SeverityCritical,
         Cause |-> "Infrastructure or control plane is not ready",
         Resolution |->
             "1. Check if InfrastructureReady condition is True\n" \o
             "   2. Verify ControlPlaneReady condition is True\n" \o
             "   3. Inspect Metal3Cluster and KubeadmControlPlane resources\n" \o
             "   4. Review cluster events: kubectl describe cluster <name>",
         Dependencies |-> <<"Metal3Cluster", "KubeadmControlPlane">>]
    @@ "Cluster.InfrastructureReady.False" :>
        [Condition |-> "Cluster InfrastructureReady is False",
         Severity |-> SeverityCritical,
         Cause |-> "Infrastructure provider is not ready",
         Resolution |->
             "1. Check Metal3Cluster resource: kubectl describe metal3cluster <name>\n" \o
             "   2. Verify network configuration in Metal3Cluster spec\n" \o
             "   3. Check infrastructure provider controller logs\n" \o
             "   4. Ensure required networks (provisioning, external) are configured",
         Dependencies |-> <<"Metal3Cluster">>]
    @@ "Cluster.ControlPlaneReady.False" :>
        [Condition |-> "Cluster ControlPlaneReady is False",
         Severity |-> SeverityCritical,
         Cause |-> "Control plane nodes are not ready",
         Resolution |->
             "1. Check KubeadmControlPlane status: kubectl describe kcp <name>\n" \o
             "   2. Verify control plane replicas are scheduled\n" \o
             "   3. Check control plane Machine resources status\n" \o
             "   4. Review etcd pod logs if cluster is partially up\n" \o
             "   5. Check for sufficient control plane nodes matching desired replicas",
         Dependencies |-> <<"KubeadmControlPlane", "Machine">>]
    @@ "Machine.Ready.False" :>
        [Condition |-> "Machine Ready is False",
         Severity |-> SeverityCritical,
         Cause |-> "Machine infrastructure or bootstrap is not ready",
         Resolution |->
             "1. Check Machine status: kubectl describe machine <name>\n" \o
             "   2. Verify InfrastructureReady condition status\n" \o
             "   3. Check BootstrapReady condition status\n" \o
             "   4. Review Metal3Machine and KubeadmConfig resources\n" \o
             "   5. Check node status if partially provisioned",
         Dependencies |-> <<"Metal3Machine", "KubeadmConfig">>]
    @@ "Machine.InfrastructureReady.False" :>
        [Condition |-> "Machine InfrastructureReady is False",
         Severity |-> SeverityCritical,
         Cause |-> "Metal3Machine is not ready",
         Resolution |->
             "1. Check Metal3Machine: kubectl describe metal3machine <name>\n" \o
             "   2. Verify BareMetalHost association and status\n" \o
             "   3. Check if BareMetalHost is in 'provisioned' state\n" \o
             "   4. Review BMC credentials and connectivity\n" \o
             "   5. Check baremetal-operator logs for provisioning errors",
         Dependencies |-> <<"Metal3Machine", "BareMetalHost">>]
    @@ "Machine.BootstrapReady.False" :>
        [Condition |-> "Machine BootstrapReady is False",
         Severity |-> SeverityCritical,
         Cause |-> "Bootstrap configuration is not ready",
         Resolution |->
             "1. Check KubeadmConfig: kubectl describe kubeadmconfig <name>\n" \o
             "   2. For control plane: verify API server is accessible\n" \o
             "   3. For workers: ensure control plane is ready\n" \o
             "   4. Check cluster connectivity and certificates\n" \o
             "   5. Review bootstrap provider controller logs",
         Dependencies |-> <<"KubeadmConfig">>]
    @@ "Metal3Machine.Ready.False" :>
        [Condition |-> "Metal3Machine Ready is False",
         Severity |-> SeverityCritical,
         Cause |-> "BareMetalHost is not available or not provisioned",
         Resolution |->
             "1. Check Metal3Machine: kubectl describe metal3machine <name>\n" \o
             "   2. Verify BareMetalHost binding and status\n" \o
             "   3. Check BareMetalHost state (should be 'provisioned')\n" \o
             "   4. Test BMC connectivity: ipmitool -H <bmc-ip> -U <user> -P <pass> power status\n" \o
             "   5. Review image URL and ensure it's accessible\n" \o
             "   6. Check baremetal-operator controller logs",
         Dependencies |-> <<"BareMetalHost">>]
    @@ "Metal3Machine.AssociationReady.False" :>
        [Condition |-> "Metal3Machine AssociationReady is False",
         Severity |-> SeverityWarning,
         Cause |-> "Unable to associate with BareMetalHost",
         Resolution |->
             "1. Check hostSelector labels in Metal3Machine spec\n" \o
             "   2. List available BareMetalHosts: kubectl get bmh -A\n" \o
             "   3. Verify BareMetalHost labels match hostSelector\n" \o
             "   4. Ensure BareMetalHost is not already claimed by another machine\n" \o
             "   5. Check if sufficient available hosts exist for provisioning",
         Dependencies |-> <<"BareMetalHost">>]
    @@ "BareMetalHost.Ready.False" :>
        [Condition |-> "BareMetalHost Ready is False",
         Severity |-> SeverityCritical,
         Cause |-> "Hardware is not available or provisioning failed",
         Resolution |->
             "1. Check BareMetalHost: kubectl describe bmh <name> -n <namespace>\n" \o
             "   2. Test BMC connectivity from baremetal-operator pod\n" \o
             "   3. Verify BMC credentials in secret\n" \o
             "   4. Check provisioning state and error messages\n" \o
             "   5. Ensure provisioning image is accessible\n" \o
             "   6. Review hardware compatibility and RAID configuration\n" \o
             "   7. Check Ironic logs for detailed provisioning errors",
         Dependencies |-> <<>>]
    @@ "BareMetalHost.Available.False" :>
        [Condition |-> "BareMetalHost Available is False",
         Severity |-> SeverityWarning,
         Cause |-> "Host is not available for provisioning",
         Resolution |->
             "1. Check if host is powered on: kubectl get bmh <name> -o jsonpath='{.status.poweredOn}'\n" \o
             "   2. Test BMC accessibility from cluster network\n" \o
             "   3. Verify BMC credentials are correct\n" \o
             "   4. Check hardware inspection status\n" \o
             "   5. Review operationalStatus and errorMessage fields\n" \o
             "   6. Ensure host is not in maintenance mode",
         Dependencies |-> <<>>]
    @@ "BareMetalHost.Provisioned.False" :>
        [Condition |-> "BareMetalHost Provisioned is False",
         Severity |-> SeverityCritical,
         Cause |-> "Provisioning process failed or is in progress",
         Resolution |->
             "1. Check provisioning state: kubectl get bmh <name> -o jsonpath='{.status.provisioning.state}'\n" \o
             "   2. Review provisioning error message in status\n" \o
             "   3. Verify image URL is accessible from provisioning network\n" \o
             "   4. Check disk format and partitioning settings\n" \o
             "   5. Ensure sufficient disk space for image\n" \o
             "   6. Review Ironic deployment and agent logs\n" \o
             "   7. Check network connectivity during provisioning",
         Dependencies |-> <<>>]
    @@ "KubeadmControlPlane.Ready.False" :>
        [Condition |-> "KubeadmControlPlane Ready is False",
         Severity |-> SeverityCritical,
         Cause |-> "Control plane nodes are not ready",
         Resolution |->
             "1. Check KubeadmControlPlane: kubectl describe kcp <name>\n" \o
             "   2. List control plane machines: kubectl get machines -l cluster.x-k8s.io/control-plane\n" \o
             "   3. Check machine readiness and node status\n" \o
             "   4. Verify desired vs ready replicas count\n" \o
             "   5. Review etcd health if cluster is accessible\n" \o
             "   6. Check control plane provider controller logs\n" \o
             "   7. Ensure kubeconfig secret exists for workload cluster",
         Dependencies |-> <<"Machine">>]
    @@ "KubeadmControlPlane.Initialized.False" :>
        [Condition |-> "KubeadmControlPlane Initialized is False",
         Severity |-> SeverityCritical,
         Cause |-> "Control plane initialization failed",
         Resolution |->
             "1. Check first control plane machine status\n" \o
             "   2. Review kubeadm init logs on first control plane node\n" \o
             "   3. Verify bootstrap configuration in KubeadmControlPlane spec\n" \o
             "   4. Check if certificates were generated correctly\n" \o
             "   5. Ensure control plane endpoint is configured\n" \o
             "   6. Review cloud-init logs on control plane node\n" \o
             "   7. Verify network connectivity for API server",
         Dependencies |-> <<"Machine">>]
    @@ "KubeadmControlPlane.CertificatesAvailable.False" :>
        [Condition |-> "KubeadmControlPlane CertificatesAvailable is False",
         Severity |-> SeverityCritical,
         Cause |-> "Control plane certificates are not available",
         Resolution |->
             "1. Check if cluster-certificates secret exists\n" \o
             "   2. Verify certificate generation in first control plane node\n" \o
             "   3. Review kubeadm certificate commands output\n" \o
             "   4. Check bootstrap provider logs for errors\n" \o
             "   5. Ensure control plane has completed initialization",
         Dependencies |-> <<"Machine">>]
    @@ "KubeadmConfig.Ready.False" :>
        [Condition |-> "KubeadmConfig Ready is False",
         Severity |-> SeverityWarning,
         Cause |-> "Bootstrap configuration is not ready",
         Resolution |->
             "1. Check KubeadmConfig: kubectl describe kubeadmconfig <name>\n" \o
             "   2. Verify bootstrap data secret was created\n" \o
             "   3. For workers: ensure control plane is ready and accessible\n" \o
             "   4. Check cluster connectivity and certificate validity\n" \o
             "   5. Review bootstrap provider controller logs\n" \o
             "   6. Verify join configuration is correct",
         Dependencies |-> <<>>]
    @@ "KubeadmConfig.DataSecretAvailable.False" :>
        [Condition |-> "KubeadmConfig DataSecretAvailable is False",
         Severity |-> SeverityWarning,
         Cause |-> "Bootstrap data secret has not been generated",
         Resolution |->
             "1. Check if bootstrap data secret exists\n" \o
             "   2. Verify KubeadmConfig reconciliation status\n" \o
             "   3. Ensure control plane is accessible for worker nodes\n" \o
             "   4. Review bootstrap provider controller logs\n" \o
             "   5. Check for any errors in KubeadmConfig status",
         Dependencies |-> <<>>]

(***************************************************************************)
(* pkg/advisor/advisor.go: what one issue says                             *)
(***************************************************************************)
\* advisor.go:275
BMCGuidance ==
    "   - BMC connection issue detected. Verify:\n" \o
    "     * BMC IP address is reachable from baremetal-operator pod\n" \o
    "     * BMC credentials are correct in the secret\n" \o
    "     * Firewall rules allow IPMI traffic (port 623)\n" \o
    "     * BMC firmware is up to date"

\* advisor.go:281
ImageGuidance ==
    "   - Image access issue detected. Verify:\n" \o
    "     * Image URL is accessible from provisioning network\n" \o
    "     * HTTP server hosting the image is running\n" \o
    "     * Image checksum matches if specified\n" \o
    "     * Sufficient disk space on target host"

\* advisor.go:287
NetworkGuidance ==
    "   - Network connectivity issue detected. Verify:\n" \o
    "     * Network connectivity between components\n" \o
    "     * DNS resolution is working\n" \o
    "     * No firewall blocking required ports\n" \o
    "     * Check for network policy restrictions"

\* advisor.go:293
CertificateGuidance ==
    "   - Certificate issue detected. Verify:\n" \o
    "     * Certificates are not expired\n" \o
    "     * Certificate chain is complete\n" \o
    "     * CA bundle is correctly configured\n" \o
    "     * System time is synchronized (NTP)"

\* advisor.go:299
ResourceGuidance ==
    "   - Resource availability issue detected. Verify:\n" \o
    "     * Sufficient BareMetalHosts are available\n" \o
    "     * Hosts meet the required specifications\n" \o
    "     * No resource quotas are being exceeded\n" \o
    "     * Check cluster capacity and node resources"

\* advisor.go:305
AuthGuidance ==
    "   - Authentication/authorization issue detected. Verify:\n" \o
    "     * Service account has correct permissions\n" \o
    "     * RBAC roles and bindings are configured\n" \o
    "     * Secrets contain valid credentials\n" \o
    "     * API server is accessible"

\* advisor.go:311
WaitingGuidance ==
    "   - Waiting for dependencies. Check:\n" \o
    "     * All prerequisite resources are ready\n" \o
    "     * Dependencies are not blocked\n" \o
    "     * Review the full component hierarchy\n" \o
    "     * Check for circular dependencies"

\* getSpecificGuidanceFromReason with the image test before the BMC test
getSpecificGuidanceFromReason_ImageFirst(reason, message, comp) ==
    LET reasonLower == ToLower(reason)
        messageLower == ToLower(message)
    IN  IF \/ Contains(reasonLower, "image") \/ Contains(messageLower, "image")
           \/ Contains(messageLower, "download") \/ Contains(messageLower, "http")
           THEN ImageGuidance
        ELSE IF \/ Contains(reasonLower, "bmc") \/ Contains(messageLower, "ipmi")
                \/ Contains(messageLower, "bmc") \/ Contains(reasonLower, "connection")
           THEN BMCGuidance
        ELSE IF \/ Contains(reasonLower, "timeout") \/ Contains(messageLower, "timeout")
                \/ Contains(messageLower, "connection refused")
                \/ Contains(messageLower, "network")
           THEN NetworkGuidance
        ELSE IF \/ Contains(reasonLower, "certificate")
                \/ Contains(messageLower, "certificate")
                \/ Contains(messageLower, "tls") \/ Contains(messageLower, "x509")
           THEN CertificateGuidance
        ELSE IF \/ Contains(reasonLower, "insufficient")
                \/ Contains(messageLower, "insufficient")
                \/ Contains(messageLower, "no available")
                \/ Contains(messageLower, "quota")
           THEN ResourceGuidance
        ELSE IF \/ Contains(reasonLower, "auth") \/ Contains(messageLower, "auth")
                \/ Contains(messageLower, "permission")
                \/ Contains(messageLower, "forbidden")
           THEN AuthGuidance
        ELSE IF \/ Contains(reasonLower, "waiting") \/ Contains(messageLower, "waiting")
                \/ Contains(reasonLower, "pending")
           THEN WaitingGuidance
        ELSE ""

\* advisor.go:268-315; comp is not read
getSpecificGuidanceFromReason(reason, message, comp) ==
    LET reasonLower == ToLower(reason)
        messageLower == ToLower(message)
    IN  IF \/ Contains(reasonLower, "bmc") \/ Contains(messageLower, "ipmi")
           \/ Contains(messageLower, "bmc") \/ Contains(reasonLower, "connection")
           THEN BMCGuidance
        ELSE IF \/ Contains(reasonLower, "image") \/ Contains(messageLower, "image")
                \/ Contains(messageLower, "download") \/ Contains(messageLower, "http")
           THEN ImageGuidance
        ELSE IF \/ Contains(reasonLower, "timeout") \/ Contains(messageLower, "timeout")
                \/ Contains(messageLower, "connection refused")
                \/ Contains(messageLower, "network")
           THEN NetworkGuidance
        ELSE IF \/ Contains(reasonLower, "certificate")
                \/ Contains(messageLower, "certificate")
                \/ Contains(messageLower, "tls") \/ Contains(messageLower, "x509")
           THEN CertificateGuidance
        ELSE IF \/ Contains(reasonLower, "insufficient")
                \/ Contains(messageLower, "insufficient")
                \/ Contains(messageLower, "no available")
                \/ Contains(messageLower, "quota")
           THEN ResourceGuidance
        ELSE IF \/ Contains(reasonLower, "auth") \/ Contains(messageLower, "auth")
                \/ Contains(messageLower, "permission")
                \/ Contains(messageLower, "forbidden")
           THEN AuthGuidance
        ELSE IF \/ Contains(reasonLower, "waiting") \/ Contains(messageLower, "waiting")
                \/ Contains(reasonLower, "pending")
           THEN WaitingGuidance
        ELSE ""

\* advisor.go:245-254
enhanceCause(baseCause, condition) ==
    IF condition.Reason # "" /\ condition.Message # ""
       THEN baseCause \o "\nReason: " \o condition.Reason
                      \o "\nDetails: " \o condition.Message
    ELSE IF condition.Reason # "" THEN baseCause \o "\nReason: " \o condition.Reason
    ELSE IF condition.Message # "" THEN baseCause \o "\nDetails: " \o condition.Message
    ELSE baseCause

\* advisor.go:256-266; the heading starts with a light-bulb sign in the
\* source, which is left out here
enhanceResolution(baseResolution, condition, comp) ==
    LET specificGuidance ==
            getSpecificGuidanceFromReason(condition.Reason, condition.Message, comp)
    IN  IF specificGuidance # ""
           THEN baseResolution \o "\n\nSpecific guidance based on current state:\n"
                               \o specificGuidance
        ELSE baseResolution

UnknownCause == "Unknown cause - no additional information available"

\* buildGenericCause without the case of an empty reason and message
buildGenericCause_NoPlaceholder(condition) ==
    IF condition.Message # ""
       THEN "Reason: " \o condition.Reason \o "\nDetails: " \o condition.Message
    ELSE "Reason: " \o condition.Reason

\* advisor.go:317-326
buildGenericCause(condition) ==
    IF condition.Reason # "" /\ condition.Message # ""
       THEN "Reason: " \o condition.Reason \o "\nDetails: " \o condition.Message
    ELSE IF condition.Reason # "" THEN "Reason: " \o condition.Reason
    ELSE IF condition.Message # "" THEN "Details: " \o condition.Message
    ELSE UnknownCause

\* advisor.go:329-330
GenericSteps(comp) ==
    "1. Check " \o components[comp].Type \o " resource: kubectl describe "
        \o ToLower(components[comp].Type) \o " " \o components[comp].Name
        \o " -n " \o components[comp].Namespace \o "\n" \o
    "   2. Review the condition message and reason above\n" \o
    "   3. Check controller logs for this resource type\n" \o
    "   4. Review recent events: kubectl get events -n "
        \o components[comp].Namespace \o " --field-selector involvedObject.name="
        \o components[comp].Name

\* advisor.go:328-339; the heading starts with a light-bulb sign in the
\* source, which is left out here
buildGenericResolution(comp, condition) ==
    LET specificGuidance ==
            getSpecificGuidanceFromReason(condition.Reason, condition.Message, comp)
    IN  IF specificGuidance # ""
           THEN GenericSteps(comp) \o "\n\nSpecific guidance based on error:\n"
                                   \o specificGuidance
        ELSE GenericSteps(comp)

\* the search among the children only
DependenciesOfType_ChildrenOnly(g, comp, depType) ==
    SelectSeq(g.Children[comp], LAMBDA child : components[child].Type = depType)

\* advisor.go:344-359: what one listed kind adds, read from the graph g
DependenciesOfType(g, comp, depType) ==
    SelectSeq(g.Children[comp], LAMBDA child : components[child].Type = depType)
    \o (IF g.Parent[comp] # 0
           THEN SelectSeq(g.Children[g.Parent[comp]],
                          LAMBDA sibling : /\ components[sibling].Type = depType
                                           /\ sibling # comp)
           ELSE <<>>)

RECURSIVE DependenciesLoop(_, _, _, _)
DependenciesLoop(g, comp, depTypes, k) ==
    IF k > Len(depTypes) THEN <<>>
    ELSE DependenciesOfType(g, comp, depTypes[k])
            \o DependenciesLoop(g, comp, depTypes, k + 1)

\* advisor.go:341-363
findDependencies(g, comp, depTypes) == DependenciesLoop(g, comp, depTypes, 1)

\* the key without the condition's status
KeyOf_NoStatus(comp, condition) == components[comp].Type \o "." \o condition.Type

\* advisor.go:213: fmt.Sprintf("%s.%s.%s", comp.Type, condition.Type, condition.Status)
KeyOf(comp, condition) ==
    components[comp].Type \o "." \o condition.Type \o "." \o condition.Status

\* IssueOf that grades a rule's issue as a warning once the record has related
\* resources
IssueOf_WarningWithDependencies(g, comp, condition) ==
    IF KeyOf(comp, condition) \in DOMAIN knowledgeBase
       THEN LET knowledge == knowledgeBase[KeyOf(comp, condition)]
                deps == findDependencies(g, comp, knowledge.Dependencies)
            IN
            [Component |-> comp,
             Condition |-> condition,
             Severity |-> IF deps # <<>> THEN SeverityWarning ELSE knowledge.Severity,
             Description |-> knowledge.Condition,
             Cause |-> enhanceCause(knowledge.Cause, condition),
             Resolution |-> enhanceResolution(knowledge.Resolution, condition, comp),
             Dependencies |-> deps]
       ELSE [Component |-> comp,
             Condition |-> condition,
             Severity |-> SeverityWarning,
             Description |-> components[comp].Type \o " " \o condition.Type
                                \o " is " \o condition.Status,
             Cause |-> buildGenericCause(condition),
             Resolution |-> buildGenericResolution(comp, condition),
             Dependencies |-> <<>>]

\* advisor.go:214-238: the issue of one False condition
IssueOf(g, comp, condition) ==
    IF KeyOf(comp, condition) \in DOMAIN knowledgeBase
       THEN LET knowledge == knowledgeBase[KeyOf(comp, condition)] IN
            [Component |-> comp,
             Condition |-> condition,
             Severity |-> knowledge.Severity,
             Description |-> knowledge.Condition,
             Cause |-> enhanceCause(knowledge.Cause, condition),
             Resolution |-> enhanceResolution(knowledge.Resolution, condition, comp),
             Dependencies |-> findDependencies(g, comp, knowledge.Dependencies)]
       ELSE [Component |-> comp,
             Condition |-> condition,
             Severity |-> SeverityWarning,
             Description |-> components[comp].Type \o " " \o condition.Type
                                \o " is " \o condition.Status,
             Cause |-> buildGenericCause(condition),
             Resolution |-> buildGenericResolution(comp, condition),
             Dependencies |-> <<>>]

\* the test with every state but Unknown reported
IsFalse_NotUnknown(condition) == condition.Status # ConditionUnknown

\* advisor.go:212
IsFalse(condition) == condition.Status = ConditionFalse

RECURSIVE ConditionLoop(_, _, _)
ConditionLoop(g, comp, k) ==
    IF k > Len(components[comp].Conditions) THEN <<>>
    ELSE LET condition == components[comp].Conditions[k] IN
         (IF IsFalse(condition) THEN <<IssueOf(g, comp, condition)>> ELSE <<>>)
            \o ConditionLoop(g, comp, k + 1)

\* analyzeComponent that stops after the first issue of a record
analyzeComponent_FirstOnly(g, comp) ==
    IF ConditionLoop(g, comp, 1) = <<>> THEN <<>>
    ELSE <<Head(ConditionLoop(g, comp, 1))>>

\* advisor.go:208-243
analyzeComponent(g, comp) == ConditionLoop(g, comp, 1)

(***************************************************************************)
(* pkg/advisor/advisor.go: AnalyzeComponents                               *)
(*                                                                         *)
(* sort.Slice is Go's pattern-defeating quicksort (sort/zsortfunc.go): an  *)
(* insertion sort up to MaxInsertion elements; above that it chooses a     *)
(* pivot, returns at once when the slice is in order, and otherwise        *)
(* partitions around the pivot and sorts both sides. A slice of            *)
(* MaxInsertion + 1 elements takes one such round, both sides being short  *)
(* enough for the insertion sort; longer slices are outside this model.    *)
(***************************************************************************)
MaxInsertion == 12

\* advisor.go:185-189
severityOrder == SeverityCritical :> 0 @@ SeverityWarning :> 1 @@ SeverityInfo :> 2

\* advisor.go:190
less(x, y) == severityOrder[x.Severity] < severityOrder[y.Severity]

Swap(data, x, y) == [data EXCEPT ![x] = data[y], ![y] = data[x]]

\* insertionSort_func, inner loop: data[j] moves down while it is less than
\* the element before it
RECURSIVE SiftBack(_, _, _)
SiftBack(data, j, lo) ==
    IF j > lo /\ less(data[j], data[j - 1])
       THEN SiftBack(Swap(data, j, j - 1), j - 1, lo)
       ELSE data

RECURSIVE InsertionLoop(_, _, _, _)
InsertionLoop(data, k, lo, hi) ==
    IF k > hi THEN data ELSE InsertionLoop(SiftBack(data, k, lo), k + 1, lo, hi)

\* insertionSort_func on data[lo..hi]
insertionSort_func(data, lo, hi) == InsertionLoop(data, lo + 1, lo, hi)

\* order2_func: the two positions in order, and the swaps counted so far
order2_func(data, x, y, swaps) ==
    IF less(data[y], data[x]) THEN <<y, x, swaps + 1>> ELSE <<x, y, swaps>>

\* median_func: the position of the median of three, and the swaps it took
median_func(data, x, y, z) ==
    LET xy == order2_func(data, x, y, 0)
        yz == order2_func(data, xy[2], z, xy[3])
        fin == order2_func(data, xy[1], yz[1], yz[3])
    IN  [pivot |-> fin[2], swaps |-> fin[3]]

\* choosePivot_func for 8 to 49 elements: the median of the elements at the
\* three quarters
choosePivot_func(data, lo, hi) ==
    LET quarter == (hi - lo + 1) \div 4
    IN  median_func(data, lo + quarter, lo + quarter * 2, lo + quarter * 3)

\* partialInsertionSort_func below 50 elements: true when no element is
\* less than the one before it, and nothing is moved
partialInsertionSort_func(data, lo, hi) ==
    \A k \in (lo + 1)..hi : ~less(data[k], data[k - 1])

RECURSIVE ScanUp(_, _, _, _)
ScanUp(data, x, y, lo) ==
    IF x <= y /\ less(data[x], data[lo]) THEN ScanUp(data, x + 1, y, lo) ELSE x

RECURSIVE ScanDown(_, _, _, _)
ScanDown(data, x, y, lo) ==
    IF x <= y /\ ~less(data[y], data[lo]) THEN ScanDown(data, x, y - 1, lo) ELSE y

\* partition_func after the pivot went to lo: the two scans and the swap,
\* repeated until the scans cross; then the pivot goes to its place
RECURSIVE PartitionLoop(_, _, _, _)
PartitionLoop(data, x, y, lo) ==
    LET up == ScanUp(data, x, y, lo)
        down == ScanDown(data, up, y, lo)
    IN  IF up > down THEN [data |-> Swap(data, down, lo), mid |-> down]
        ELSE PartitionLoop(Swap(data, up, down), up + 1, down - 1, lo)

partition_func(data, lo, hi, pivot) ==
    PartitionLoop(Swap(data, lo, pivot), lo + 1, hi, lo)

\* pdqsort_func on data[lo..hi] of at most MaxInsertion + 1 elements
pdqsort_func(data, lo, hi) ==
    IF hi - lo + 1 <= MaxInsertion THEN insertionSort_func(data, lo, hi)
    ELSE LET chosen == choosePivot_func(data, lo, hi) IN
         IF chosen.swaps = 0 /\ partialInsertionSort_func(data, lo, hi) THEN data
         ELSE LET parted == partition_func(data, lo, hi, chosen.pivot) IN
              insertionSort_func(insertionSort_func(parted.data, lo, parted.mid - 1),
                                 parted.mid + 1, hi)

\* AnalyzeComponents without the sort
sortSlice_Unsorted(issues) == issues

\* advisor.go:183-191: sort.Slice(issues, less)
sortSlice(issues) == pdqsort_func(issues, 1, Len(issues))

\* counters that are set to one instead of incremented
CountsOf_Presence(seq) == [key \in Range(seq) |-> 1]

\* a Go map of counters: the keys counted at least once
CountsOf(seq) == [key \in Range(seq) |-> Count(seq, key)]
\* reading a Go map of counters: 0 for a key it does not hold
At(counts, key) == IF key \in DOMAIN counts THEN counts[key] ELSE 0

\* determineClusterHealth with the Pending test before the Degraded test
determineClusterHealth_PendingFirst(statusCounts, severityCounts) ==
    IF At(severityCounts, SeverityCritical) > 0 \/ At(statusCounts, StatusFailed) > 0
       THEN StatusFailed
    ELSE IF At(statusCounts, StatusPending) > 0
       THEN StatusPending
    ELSE IF At(severityCounts, SeverityWarning) > 0 \/ At(statusCounts, StatusDegraded) > 0
       THEN StatusDegraded
    ELSE StatusHealthy

\* advisor.go:365-376
determineClusterHealth(statusCounts, severityCounts) ==
    IF At(severityCounts, SeverityCritical) > 0 \/ At(statusCounts, StatusFailed) > 0
       THEN StatusFailed
    ELSE IF At(severityCounts, SeverityWarning) > 0 \/ At(statusCounts, StatusDegraded) > 0
       THEN StatusDegraded
    ELSE IF At(statusCounts, StatusPending) > 0
       THEN StatusPending
    ELSE StatusHealthy

\* advisor.go:173-181: the issues of all components, in scan order
RECURSIVE ComponentLoop(_, _)
ComponentLoop(g, k) ==
    IF k > N THEN <<>> ELSE analyzeComponent(g, k) \o ComponentLoop(g, k + 1)

\* advisor.go:168-206
AnalyzeComponents ==
    /\ pc \in {"discovered", "done"}
    /\ \E issues \in {ComponentLoop(G, 1)} :
       LET statusCounts == CountsOf([k \in 1..N |-> components[k].Status])
           severityCounts == CountsOf([k \in DOMAIN issues |-> issues[k].Severity])
       IN  /\ Len(issues) <= MaxInsertion + 1
           /\ result' =
                 [Issues |-> sortSlice(issues),
                  Summary |->
                     [TotalComponents |-> N,
                      StatusCounts |-> statusCounts,
                      SeverityCounts |-> severityCounts,
                      ClusterHealth |->
                          determineClusterHealth(statusCounts, severityCounts)]]
    /\ pc' = "analyzed"
    /\ UNCHANGED <<components, Parent, Children, tb_components, i, roots, run, mode, first, scan, output>>

\* discovery.go:123-153: a record as discovery hands it on, status derived
Discovered(type, ns, name, conds) ==
    [Plain(type, ns, name) EXCEPT !.Conditions = conds,
                                  !.Status = determineComponentStatus(conds)]

\* the state after discovery of the given records, before any tree is built
InitDiscovered(inputs) ==
    /\ components \in inputs
    /\ Parent = NoEdges(Len(components)).Parent
    /\ Children = NoEdges(Len(components)).Children
    /\ tb_components = <<>>
    /\ pc = "discovered"
    /\ i = 1
    /\ roots = <<>>
    /\ run = 1
    /\ mode = "single"
    /\ first = <<>>
    /\ result = NoResult
    /\ scan = NoScan
    /\ output = <<>>

(***************************************************************************)
(* doctor: AnalyzeComponents on discovered records (cmd/doctor.go).        *)
(* Records are Machines and BareMetalHosts with at most two conditions.    *)
(***************************************************************************)
MaxAdvRecs == 2     \* longest input sequence of the advisor specification

AdvisorConditions ==
    {Condition("Ready", s) : s \in {ConditionTrue, ConditionFalse, ConditionUnknown}}
    \cup {Condition("Available", s) : s \in {ConditionTrue, ConditionFalse}}
    \cup {Condition("InfrastructureReady", ConditionFalse)}

AdvisorConditionSeqs ==
    {<<>>} \cup {<<c>> : c \in AdvisorConditions}
           \cup {<<c, d>> : c \in AdvisorConditions, d \in AdvisorConditions}

AdvisorUniverse ==
    {Discovered(type, "n1", "a", conds) :
        type \in {MachineType, BareMetalHostType}, conds \in AdvisorConditionSeqs}

InitAdvisor == InitDiscovered(UNION {[1..k -> AdvisorUniverse] : k \in 1..MaxAdvRecs})

NextAdvisor == AnalyzeComponents

SpecAdvisor == InitAdvisor /\ [][NextAdvisor]_vars

(***************************************************************************)
(* doctor on one record with one condition, over reasons and messages as   *)
(* controllers write them: what the issue of that condition says.          *)
(***************************************************************************)
Reasons ==
    {"", "BMCConnectionTimeout", "ImageNotFound", "Timeout", "CertificateExpired",
     "InsufficientResources", "Unauthorized", "WaitingForInfrastructure",
     "Pending", "ProvisioningFailed"}

Messages ==
    {"", "IPMI call failed", "failed to download http://img", "connection refused",
     "x509: unknown authority", "no available host", "permission denied",
     "Waiting for bootstrap data", "TLS handshake Timeout", "host is not ready"}

IssueUniverse ==
    {Discovered(type, "n1", "a", <<ConditionWith(ctype, state, reason, message)>>) :
        type \in {MachineType, BareMetalHostType, MachineSetType},
        ctype \in {"Ready", "Available"},
        state \in {ConditionFalse, ConditionUnknown},
        reason \in Reasons,
        message \in Messages}

InitIssue == InitDiscovered({<<c>> : c \in IssueUniverse})

NextIssue == AnalyzeComponents

SpecIssue == InitIssue /\ [][NextIssue]_vars

(***************************************************************************)
(* doctor on records with one issue each, Critical or Warning, up to the   *)
(* shortest input that sort.Slice does not sort by insertion.              *)
(***************************************************************************)
SortUniverse ==
    {Discovered(MachineType, "n1", "a", <<Condition("Ready", ConditionFalse)>>),
     Discovered(BareMetalHostType, "n1", "a", <<Condition("Available", ConditionFalse)>>)}

InitSort == InitDiscovered(UNION {[1..k -> SortUniverse] : k \in 1..(MaxInsertion + 1)})

NextSort == AnalyzeComponents

SpecSort == InitSort /\ [][NextSort]_vars

(***************************************************************************)
(* analyze: BuildDependencyTree, then AnalyzeComponents on the same        *)
(* records (cmd/analyze.go). The records are those of the builder          *)
(* specification in namespace n1 that are named a, and the Machine b the   *)
(* control plane owns, each with the conditions of its kind in state       *)
(* False.                                                                  *)
(***************************************************************************)
MaxPipeRecs == 4    \* longest input sequence of the analyze specification

PipelineUniverse ==
    {comp \in Universe :
        comp.Namespace = "n1" /\ (comp.Name = "a" \/ comp.Type = MachineType)}

FailingConditions(type) ==
    IF type = ClusterType
       THEN <<Condition("Ready", ConditionFalse),
              Condition("ControlPlaneReady", ConditionFalse)>>
    ELSE IF type = MachineType
       THEN <<Condition("Ready", ConditionFalse),
              Condition("InfrastructureReady", ConditionFalse)>>
    ELSE <<Condition("Ready", ConditionFalse)>>

\* discovery.go:123-153: the record discovery returns for the object that comp
\* describes, its conditions failing. Component.Metadata gets the keys labels,
\* status and spec only: the object's metadata, and with it the owner
\* references, is not kept.
Failing(comp) ==
    [comp EXCEPT !.Conditions = FailingConditions(comp.Type),
                 !.Status = determineComponentStatus(FailingConditions(comp.Type)),
                 !.hasMetadata = FALSE,
                 !.ownerReferences = <<>>]

InitPipeline ==
    InitOver(UNION {[1..k -> {Failing(comp) : comp \in PipelineUniverse}] :
                       k \in 1..MaxPipeRecs})

NextPipeline == Build \/ AnalyzeComponents

SpecPipeline == InitPipeline /\ [][NextPipeline]_vars

(***************************************************************************)
(* The two passes side by side: BuildDependencyTree and AnalyzeComponents  *)
(* on the same records, the steps of the one between the steps of the      *)
(* other. A step of the analysis is one turn of its loop over the records  *)
(* (advisor.go:173-181); the edges of the record are read in that step.    *)
(***************************************************************************)
MaxConcRecs == 3    \* longest input sequence of the side-by-side specification

ConcurrentUniverse ==
    {comp \in PipelineUniverse :
        comp.Name = "a" /\ comp.Type \notin {Metal3ClusterType, KubeadmConfigType}}

\* advisor.go:184-205 for the issues the loop has collected
analysisResult(issues) ==
    LET statusCounts == CountsOf([k \in 1..N |-> components[k].Status])
        severityCounts == CountsOf([k \in DOMAIN issues |-> issues[k].Severity])
    IN  [Issues |-> sortSlice(issues),
         Summary |->
            [TotalComponents |-> N,
             StatusCounts |-> statusCounts,
             SeverityCounts |-> severityCounts,
             ClusterHealth |-> determineClusterHealth(statusCounts, severityCounts)]]

InitConcurrent ==
    /\ components \in UNION {[1..k -> {Failing(comp) : comp \in ConcurrentUniverse}] :
                                k \in 1..MaxConcRecs}
    /\ Parent = NoEdges(Len(components)).Parent
    /\ Children = NoEdges(Len(components)).Children
    /\ tb_components = <<>>
    /\ pc = "index"
    /\ i = 1
    /\ roots = <<>>
    /\ run = 1
    /\ mode = "single"
    /\ first = <<>>
    /\ result = NoResult
    /\ scan = [at |-> 1, issues |-> <<>>, start |-> ""]
    /\ output = <<>>

\* advisor.go:173-181, one record; start keeps where the build stood when the
\* loop took its first record
AnalyzeRecord ==
    /\ scan.at \in 1..N
    /\ scan' = [at |-> scan.at + 1,
                issues |-> scan.issues \o analyzeComponent(G, scan.at),
                start |-> IF scan.at = 1 THEN pc ELSE scan.start]
    /\ UNCHANGED <<components, Parent, Children, tb_components, pc, i, roots, run, mode,
                   first, result, output>>

\* advisor.go:184-205
AnalyzeReturn ==
    /\ scan.at = N + 1
    /\ result' = analysisResult(scan.issues)
    /\ scan' = [scan EXCEPT !.at = 0]
    /\ UNCHANGED <<components, Parent, Children, tb_components, pc, i, roots, run, mode,
                   first, output>>

NextConcurrent == Build \/ AnalyzeRecord \/ AnalyzeReturn

SpecConcurrent == InitConcurrent /\ [][NextConcurrent]_vars

(***************************************************************************)
(* PrintTree (builder.go:207-253). The returned string is kept as the      *)
(* sequence of its lines; a line is kept as its indentation, its sign and  *)
(* the text after the sign, together with the record and the place of the  *)
(* condition (0: the record's own line) it was written for. The signs are  *)
(* not ASCII; each is kept by a name.                                      *)
(***************************************************************************)
MaxPrintRecs == 4   \* longest input sequence of the printing specification

\* builder.go:240-253
getStatusIcon(status) ==
    IF status = StatusHealthy THEN "check mark button"
    ELSE IF status = StatusDegraded THEN "warning"
    ELSE IF status = StatusFailed THEN "cross mark"
    ELSE IF status = StatusPending THEN "hourglass"
    ELSE "question mark"

\* builder.go:224-229
conditionIcon(condition) ==
    IF condition.Status = ConditionTrue THEN "check"
    ELSE IF condition.Status = ConditionFalse THEN "ballot x"
    ELSE "?"

\* strings.Repeat
RECURSIVE Repeat(_, _)
Repeat(str, count) == IF count = 0 THEN "" ELSE str \o Repeat(str, count - 1)

\* builder.go:219-220
ComponentLine(comp, depth) ==
    [Indent |-> Repeat("  ", depth),
     Icon |-> getStatusIcon(components[comp].Status),
     Text |-> components[comp].Type \o "/" \o components[comp].Name
                 \o " (" \o components[comp].Status \o ")",
     Record |-> comp,
     Condition |-> 0]

\* builder.go:223-232
ConditionLines(comp, depth) ==
    [k \in DOMAIN components[comp].Conditions |->
        LET condition == components[comp].Conditions[k] IN
        [Indent |-> Repeat("  ", depth) \o "  ",
         Icon |-> conditionIcon(condition),
         Text |-> condition.Type \o ": " \o condition.Message,
         Record |-> comp,
         Condition |-> k]]

\* a call depth no forest of the records reaches: the recursion did not end
Endless == [Indent |-> "", Icon |-> "", Text |-> "", Record |-> 0, Condition |-> 0]

\* printComponent that passes its own depth on to the children
RECURSIVE printComponent_SameDepth(_, _, _)
printComponent_SameDepth(g, comp, depth) ==
    IF depth > Len(g.Parent) THEN <<Endless>>
    ELSE LET ChildrenLoop[k \in 1..(Len(g.Children[comp]) + 1)] ==
                 IF k > Len(g.Children[comp]) THEN <<>>
                 ELSE printComponent_SameDepth(g, g.Children[comp][k], depth)
                         \o ChildrenLoop[k + 1]
         IN  <<ComponentLine(comp, depth)>> \o ConditionLines(comp, depth) \o ChildrenLoop[1]

\* builder.go:215-238
RECURSIVE printComponent(_, _, _)
printComponent(g, comp, depth) ==
    IF depth > Len(g.Parent) THEN <<Endless>>
    ELSE LET ChildrenLoop[k \in 1..(Len(g.Children[comp]) + 1)] ==
                 IF k > Len(g.Children[comp]) THEN <<>>
                 ELSE printComponent(g, g.Children[comp][k], depth + 1)
                         \o ChildrenLoop[k + 1]
         IN  <<ComponentLine(comp, depth)>> \o ConditionLines(comp, depth) \o ChildrenLoop[1]

\* builder.go:207-213
RECURSIVE PrintTreeLoop(_, _)
PrintTreeLoop(g, comps) ==
    IF comps = <<>> THEN <<>>
    ELSE printComponent(g, Head(comps), 0) \o PrintTreeLoop(g, Tail(comps))

OutputFormats == {"report", "json", "yaml", ""}

\* analyze.go:92-101: the tree of the roots BuildDependencyTree returned, after
\* the report, when the tree is asked for and the format is not json or yaml
PrintTree ==
    /\ pc = "analyzed"
    /\ \E outputFormat \in OutputFormats, showTree \in BOOLEAN :
          /\ outputFormat \notin {"json", "yaml"}
          /\ showTree
    /\ output' = PrintTreeLoop(G, roots)
    /\ pc' = "printed"
    /\ UNCHANGED <<components, Parent, Children, tb_components, i, roots, run, mode,
                   first, result, scan>>

\* analyze.go:86-98, 103: json or yaml, or no tree asked for: no tree is printed
ReturnWithoutTree ==
    /\ pc = "analyzed"
    /\ \E outputFormat \in OutputFormats, showTree \in BOOLEAN :
          outputFormat \in {"json", "yaml"} \/ ~showTree
    /\ pc' = "returned"
    /\ UNCHANGED <<components, Parent, Children, tb_components, i, roots, run, mode,
                   first, result, scan, output>>

InitPrint ==
    InitOver(UNION {[1..k -> {Failing(comp) : comp \in PipelineUniverse}] :
                       k \in 1..MaxPrintRecs})

NextPrint == Build \/ AnalyzeComponents \/ PrintTree \/ ReturnWithoutTree

SpecPrint == InitPrint /\ [][NextPrint]_vars

(***************************************************************************)
(* Properties of the dependency tree                                       *)
(***************************************************************************)
Done == pc = "done"
Min(S) == CHOOSE x \in S : \A y \in S : x <= y
Indexed(p) == p \in Range(tb_components)
IsChildOf(c, p) == \E k \in DOMAIN Children[p] : Children[p][k] = c

\* the data model's assumption: (kind, namespace, name) is unique in the input
UniqueIdentities ==
    \A j, k \in 1..N :
        j # k => getComponentKey(components[j]) # getComponentKey(components[k])

\* the record an identity lookup resolves to, written out independently of
\* findComponent: the indexed record of that name, namespace and type
ResolvesTo(ref, namespace, compType, t) ==
    /\ IsString(ref)
    /\ Indexed(t)
    /\ components[t].Name = ref
    /\ components[t].Namespace = namespace
    /\ components[t].Type = compType

\* following Parent from cur for at most fuel steps arrives at k
RECURSIVE ReachesByParent(_, _, _)
ReachesByParent(k, cur, fuel) ==
    IF fuel = 0 \/ Parent[cur] = 0 THEN FALSE
    ELSE IF Parent[cur] = k THEN TRUE
    ELSE ReachesByParent(k, Parent[cur], fuel - 1)

\* C1: after BuildDependencyTree the parent relation is a forest: no record
\* is its own ancestor, and no record has more than one parent (it occurs in
\* at most one children list, at most once).
C1_Forest ==
    Done =>
        /\ \A k \in 1..N : ~ReachesByParent(k, k, N)
        /\ \A c \in 1..N :
              Cardinality({pk \in (1..N) \X (1..N) :
                              /\ pk[2] \in DOMAIN Children[pk[1]]
                              /\ Children[pk[1]][pk[2]] = c}) <= 1

\* a tree three levels deep was built, and a record two rules compete for
\* (a Machine with a resolvable clusterName that a MachineSet owns) is in it
C1_Witness ==
    /\ Done
    /\ \E k \in 1..N : Parent[k] # 0 /\ Parent[Parent[k]] # 0
    /\ \E m, s, c \in 1..N :
          /\ components[m].Type = MachineType /\ Indexed(m)
          /\ components[s].Type = MachineSetType
          /\ isOwnedBy(components[m], components[s].Name, "MachineSet")
          /\ ResolvesTo(components[m].clusterName, components[m].Namespace, ClusterType, c)
          /\ components[m].hasSpec

\* C2: in every state during and after BuildDependencyTree, Parent and
\* Children agree: a record with parent p occurs exactly once in p's
\* children, and every member of p's children has parent p.
C2_ParentChildrenConsistent ==
    /\ \A c \in 1..N : Parent[c] # 0 => Count(Children[Parent[c]], c) = 1
    /\ \A p \in 1..N : \A k \in DOMAIN Children[p] : Parent[Children[p][k]] = p

\* in the middle of the relationship loop, with two edges set and a record
\* with two children
C2_Witness ==
    /\ pc = "build" /\ i <= N
    /\ \E p \in 1..N : Len(Children[p]) >= 2
    /\ \E c \in 1..N : Parent[c] # 0 /\ Children[c] # <<>>

\* the owners of Machine m in the input: MachineSets and
\* KubeadmControlPlanes its ownerReferences name
OwnersOf(m) ==
    {j \in 1..N :
        \/ /\ components[j].Type = MachineSetType
           /\ isOwnedBy(components[m], components[j].Name, "MachineSet")
        \/ /\ components[j].Type = KubeadmControlPlaneType
           /\ isOwnedBy(components[m], components[j].Name, "KubeadmControlPlane")}

HasResolvableCluster(m, c) ==
    /\ components[m].Type = MachineType
    /\ components[m].hasSpec
    /\ ResolvesTo(components[m].clusterName, components[m].Namespace, ClusterType, c)

\* C3 as stated: rules are evaluated by kind, Machine first, so a Machine with
\* a resolvable clusterName and an ownerReference to an existing MachineSet
\* always ends with the Cluster as parent, wherever the MachineSet stands.
C3_ClusterAlwaysWins ==
    (Done /\ UniqueIdentities) =>
        \A m, c, s \in 1..N :
            ( /\ HasResolvableCluster(m, c)
              /\ components[s].Type = MachineSetType
              /\ isOwnedBy(components[m], components[s].Name, "MachineSet") )
            => Parent[m] = c

\* C3 amended: rules are evaluated record by record in input order. A Machine
\* with a resolvable clusterName ends with the Cluster as parent unless it is
\* the indexed record of its identity and an owner (MachineSet or
\* KubeadmControlPlane named by its ownerReferences) precedes it in the
\* input; then its parent is the first such owner.
C3_InputOrderWins ==
    Done =>
        \A m, c \in 1..N :
            HasResolvableCluster(m, c) =>
                LET before == {j \in OwnersOf(m) : j < m /\ Indexed(m)}
                IN Parent[m] = IF before = {} THEN c ELSE Min(before)

\* both outcomes in one input: a Machine under its Cluster although a
\* MachineSet owning it follows, or under the MachineSet that precedes it
C3_Witness ==
    /\ Done
    /\ \E m, c, s \in 1..N :
          /\ HasResolvableCluster(m, c)
          /\ components[s].Type = MachineSetType
          /\ isOwnedBy(components[m], components[s].Name, "MachineSet")
          /\ s < m
          /\ Parent[m] = s

\* C4: for a fixed input sequence, BuildDependencyTree produces the same
\* forest (edges and order of every children list) and the same roots on
\* every run.
C4_SameForestEveryRun ==
    (Done /\ UniqueIdentities /\ run = 2 /\ mode = "fresh") => Result = first

\* Machine k names, by infrastructureRef, the indexed Metal3Machine t of its
\* namespace
InfraRefOf(k, t) ==
    /\ components[k].Type = MachineType
    /\ components[k].hasSpec
    /\ ResolvesTo(components[k].infrastructureRef, components[k].Namespace,
                  Metal3MachineType, t)

\* C8 as stated: a Machine whose infrastructureRef names an existing
\* Metal3Machine of its namespace ends with that Metal3Machine as child,
\* exactly once, and as its parent, in every record set.
C8_InfraRefAlwaysLinks ==
    (Done /\ UniqueIdentities) =>
        \A m, t \in 1..N :
            InfraRefOf(m, t) => Parent[t] = m /\ Count(Children[m], t) = 1

\* C8 amended: the Metal3Machine that the infrastructureRef resolves to ends
\* as child, exactly once, of the first Machine record in input order whose
\* infrastructureRef resolves to it, and of no other record; so it is this
\* Machine's child when no earlier Machine record references it.
C8_FirstReferrerGetsInfra ==
    Done =>
        \A m, t \in 1..N :
            InfraRefOf(m, t) =>
                LET winner == Min({k \in 1..N : InfraRefOf(k, t)})
                IN /\ Parent[t] = winner
                   /\ Count(Children[winner], t) = 1
                   /\ \A p \in (1..N) \ {winner} : ~IsChildOf(t, p)

\* two Machines reference one Metal3Machine, which stands after both
C8_Witness ==
    /\ Done
    /\ \E m1, m2, t \in 1..N :
          /\ m1 < m2 /\ m2 < t
          /\ components[m1].Name # components[m2].Name
          /\ InfraRefOf(m1, t) /\ InfraRefOf(m2, t)
          /\ Parent[t] = m1

HasHostSelector(m) ==
    /\ components[m].Type = Metal3MachineType
    /\ components[m].hasSpec
    /\ IsString(components[m].hostSelector)

HasHostChild(m) ==
    \E k \in DOMAIN Children[m] : components[Children[m][k]].Type = BareMetalHostType

\* C9: a Metal3Machine with a hostSelector takes the first unclaimed
\* BareMetalHost of its namespace: it gets a BareMetalHost child whenever an
\* indexed BareMetalHost of its namespace has no parent when its rule runs
\* (a host still unclaimed at the end was unclaimed then).
C9_SelectorTakesUnclaimedHost ==
    (Done /\ UniqueIdentities) =>
        \A m \in 1..N :
            ( /\ HasHostSelector(m)
              /\ \E h \in BareMetalHostCandidates(components[m].Namespace) : Parent[h] = 0 )
            => HasHostChild(m)

\* C10: a second BuildDependencyTree on the records as the first left them
\* changes no edge and no children list and returns the same roots.
C10_SecondBuildChangesNothing ==
    (Done /\ UniqueIdentities /\ run = 2 /\ mode = "again") => Result = first

\* the returned roots that k is, or descends from
RootsAbove(k) == {r \in Range(roots) : r = k \/ ReachesByParent(r, k, N)}

\* C11: BuildDependencyTree returns exactly the records whose Parent is unset
\* after all rules ran, each once, in the order of the input; every input
\* record is a returned root or a descendant of exactly one returned root.
C11_RootsAreTheParentless ==
    Done =>
        /\ \A k \in 1..N : Count(roots, k) = (IF Parent[k] = 0 THEN 1 ELSE 0)
        /\ Range(roots) \subseteq 1..N
        /\ \A a, b \in DOMAIN roots : a < b => roots[a] < roots[b]
        /\ \A k \in 1..N : Cardinality(RootsAbove(k)) = 1

\* two roots were returned, the later one with a grandchild, and a record
\* that is no root stands before a root in the input
C11_Witness ==
    /\ Done
    /\ Len(roots) = 2
    /\ \E k \in 1..N : Parent[k] # 0 /\ Parent[Parent[k]] = roots[2]
    /\ \E k \in 1..N : Parent[k] # 0 /\ k < roots[2]

(***************************************************************************)
(* Properties of the status derivation                                     *)
(***************************************************************************)
Converted == pc = "converted"
Conds == components[1].Conditions
IsVerdict(cond) ==
    cond.Type \in ReadyTypes /\ cond.Status \in {ConditionTrue, ConditionFalse}

\* C5: if a Ready/Available condition has state False and no earlier
\* Ready/Available condition has state True, the status is Failed, whatever
\* conditions of other types precede or follow it.
C5_ReadyFalseIsFailed ==
    Converted =>
        ( (\E k \in DOMAIN Conds :
              /\ Conds[k].Type \in ReadyTypes /\ Conds[k].Status = ConditionFalse
              /\ \A j \in 1..(k - 1) :
                    ~(Conds[j].Type \in ReadyTypes /\ Conds[j].Status = ConditionTrue))
          => components[1].Status = StatusFailed )

\* C6: InfrastructureReady=False with Ready=True derives Healthy, in either
\* order of the two conditions.
C6_InfraFalseReadyTrueIsHealthy ==
    Converted =>
        ( Conds \in { <<Condition("InfrastructureReady", ConditionFalse),
                        Condition("Ready", ConditionTrue)>>,
                      <<Condition("Ready", ConditionTrue),
                        Condition("InfrastructureReady", ConditionFalse)>> }
          => components[1].Status = StatusHealthy )

\* C7: no conditions derive Unknown; conditions without a Ready/Available
\* condition in state True or False derive Degraded if one is False, else
\* Pending if one is Unknown, else Healthy.
C7_FallThrough ==
    Converted =>
        /\ Conds = <<>> => components[1].Status = StatusUnknown
        /\ (Conds # <<>> /\ \A k \in DOMAIN Conds : ~IsVerdict(Conds[k])) =>
              components[1].Status =
                 IF \E k \in DOMAIN Conds : Conds[k].Status = ConditionFalse
                    THEN StatusDegraded
                 ELSE IF \E k \in DOMAIN Conds : Conds[k].Status = ConditionUnknown
                    THEN StatusPending
                 ELSE StatusHealthy

\* a False condition of a type the code does not name follows an Unknown
\* Ready: no verdict, and Degraded goes before Pending
C7_Witness ==
    /\ Converted
    /\ Len(Conds) = 3
    /\ \A k \in DOMAIN Conds : ~IsVerdict(Conds[k])
    /\ Conds[1] = Condition("Ready", ConditionUnknown)
    /\ Conds[2] = Condition("Synced", ConditionFalse)
    /\ components[1].Status = StatusDegraded

(***************************************************************************)
(* Properties of the analysis                                              *)
(***************************************************************************)
Analyzed == pc = "analyzed"
Issues == result.Issues
Summary == result.Summary

\* the (record, position) pairs of the conditions in state False
FalseConditions ==
    UNION {{<<k, j>> : j \in {j \in DOMAIN components[k].Conditions :
                                components[k].Conditions[j].Status = ConditionFalse}} :
           k \in 1..N}

\* how many issues name record k and condition cond
IssuesAbout(k, cond) ==
    Cardinality({x \in DOMAIN Issues :
                    Issues[x].Component = k /\ Issues[x].Condition = cond})

\* C12: AnalyzeComponents emits one issue for every condition in state False
\* of every record and none for a condition in state True or Unknown; every
\* issue names its record and that condition, and there are as many issues as
\* there are False conditions.
C12_OneIssuePerFalseCondition ==
    Analyzed =>
        /\ \A k \in 1..N : \A j \in DOMAIN components[k].Conditions :
              LET cond == components[k].Conditions[j] IN
              IssuesAbout(k, cond) =
                 IF cond.Status = ConditionFalse
                    THEN Count(components[k].Conditions, cond) ELSE 0
        /\ \A x \in DOMAIN Issues :
              /\ Issues[x].Component \in 1..N
              /\ Issues[x].Condition \in Range(components[Issues[x].Component].Conditions)
        /\ Len(Issues) = Cardinality(FalseConditions)

\* two records were analysed: one with two False conditions, one with a
\* False condition after an Unknown one
C12_Witness ==
    /\ Analyzed
    /\ N = 2
    /\ \E k \in 1..N :
          /\ Len(components[k].Conditions) = 2
          /\ components[k].Conditions[1] # components[k].Conditions[2]
          /\ \A j \in 1..2 : components[k].Conditions[j].Status = ConditionFalse
    /\ \E k \in 1..N :
          /\ Len(components[k].Conditions) = 2
          /\ components[k].Conditions[1].Status = ConditionUnknown
          /\ components[k].Conditions[2].Status = ConditionFalse
    /\ Len(Issues) = 3

\* the knowledge base entries for exactly this kind and condition type
RulesFor(kind, ctype) ==
    {key \in DOMAIN knowledgeBase : key = kind \o "." \o ctype \o ".False"}

IsGeneric(issue) ==
    RulesFor(components[issue.Component].Type, issue.Condition.Type) = {}

\* C13: an issue has the severity of the knowledge base entry for exactly its
\* record's kind and its condition's type when there is one, and Warning
\* otherwise; the cause of an issue without an entry is built from the
\* condition's reason and message, and is the fixed unknown-cause text when
\* both are empty.
C13_SeverityAndGenericCause ==
    Analyzed =>
        \A x \in DOMAIN Issues :
            LET issue == Issues[x]
                reason == issue.Condition.Reason
                message == issue.Condition.Message
            IN  /\ \A key \in RulesFor(components[issue.Component].Type,
                                        issue.Condition.Type) :
                      issue.Severity = knowledgeBase[key].Severity
                /\ IsGeneric(issue) =>
                      /\ issue.Severity = SeverityWarning
                      /\ (reason = "" /\ message = "") <=> issue.Cause = UnknownCause
                      /\ reason # "" => Contains(issue.Cause, "Reason: " \o reason)
                      /\ reason = "" => ~Contains(issue.Cause, "Reason: ")
                      /\ message # "" => Contains(issue.Cause, "Details: " \o message)
                      /\ message = "" => ~Contains(issue.Cause, "Details: ")

\* a False condition without an entry (Available of a Machine) that carries
\* neither reason nor message became a Warning with the unknown-cause text
C13_Witness ==
    /\ Analyzed
    /\ Len(Issues) = 1
    /\ components[1].Type = MachineType
    /\ Issues[1].Condition = Condition("Available", ConditionFalse)
    /\ IsGeneric(Issues[1])
    /\ Issues[1].Severity = SeverityWarning
    /\ Issues[1].Cause = UnknownCause

\* a Machine whose only condition is Ready in state False
IsFailingMachine(k) ==
    /\ components[k].Type = MachineType
    /\ Len(components[k].Conditions) = 1
    /\ components[k].Conditions[1].Type = "Ready"
    /\ components[k].Conditions[1].Status = ConditionFalse

\* C14: a Machine whose only condition is Ready=False has status Failed, and
\* the analysis holds exactly one issue for it: Critical, with the
\* description, cause and resolution of the entry Machine.Ready.False.
C14_FailingMachine ==
    Analyzed =>
        \A k \in 1..N : IsFailingMachine(k) =>
            LET entry == knowledgeBase["Machine.Ready.False"] IN
            /\ components[k].Status = StatusFailed
            /\ Cardinality({x \in DOMAIN Issues : Issues[x].Component = k}) = 1
            /\ \A x \in DOMAIN Issues : Issues[x].Component = k =>
                  /\ Issues[x].Severity = SeverityCritical
                  /\ Issues[x].Condition = components[k].Conditions[1]
                  /\ Issues[x].Description = entry.Condition
                  /\ Contains(Issues[x].Cause, entry.Cause)
                  /\ Contains(Issues[x].Resolution, entry.Resolution)

\* such a Machine was analysed after a BareMetalHost that has an issue too
C14_Witness ==
    /\ Analyzed
    /\ N = 2
    /\ components[1].Type = BareMetalHostType
    /\ IsFailingMachine(2)
    /\ Len(Issues) = 2

\* the issues of one severity, in the order of the sequence
OfSeverity(issues, severity) == SelectSeq(issues, LAMBDA issue : issue.Severity = severity)

Severities == {SeverityCritical, SeverityWarning, SeverityInfo}

\* C15: in the returned issue list every Critical issue stands before every
\* Warning issue, and every Warning issue before every Info issue.
C15_SortedBySeverity ==
    Analyzed =>
        \A x, y \in DOMAIN Issues : x < y =>
            /\ Issues[x].Severity = SeverityWarning => Issues[y].Severity # SeverityCritical
            /\ Issues[x].Severity = SeverityInfo => Issues[y].Severity = SeverityInfo

\* thirteen issues were sorted, the scan having met Warnings before and
\* after Criticals
C15_Witness ==
    /\ Analyzed
    /\ Len(Issues) = MaxInsertion + 1
    /\ \E a, b, c \in 1..N :
          /\ a < b /\ b < c
          /\ components[a].Type = BareMetalHostType
          /\ components[b].Type = MachineType
          /\ components[c].Type = BareMetalHostType
    /\ Issues[1].Severity = SeverityCritical
    /\ Issues[Len(Issues)].Severity = SeverityWarning

\* C16: the sort by severity is stable: for an issue list of any length the
\* issues of equal severity stand in the order of the scan, record by record
\* in input order and condition by condition within a record.
C16_SortIsStable ==
    Analyzed =>
        \A severity \in Severities :
            OfSeverity(Issues, severity) = OfSeverity(ComponentLoop(G, 1), severity)

HasIssue(severity) == \E x \in DOMAIN Issues : Issues[x].Severity = severity
HasRecord(status) == \E k \in 1..N : components[k].Status = status

\* C17: the overall health is Failed if an issue is Critical or a record is
\* Failed; otherwise Degraded if an issue is a Warning or a record is
\* Degraded; otherwise Pending if a record is Pending; otherwise Healthy.
\* Records of status Unknown count for nothing, and the verdict is never
\* Unknown.
C17_OverallHealth ==
    Analyzed =>
        /\ Summary.ClusterHealth =
              IF HasIssue(SeverityCritical) \/ HasRecord(StatusFailed) THEN StatusFailed
              ELSE IF HasIssue(SeverityWarning) \/ HasRecord(StatusDegraded)
                 THEN StatusDegraded
              ELSE IF HasRecord(StatusPending) THEN StatusPending
              ELSE StatusHealthy
        /\ Summary.ClusterHealth # StatusUnknown
        /\ (\A k \in 1..N : components[k].Status = StatusUnknown) =>
              Summary.ClusterHealth = StatusHealthy

\* a Pending record and a record with a Warning issue, nothing Critical or
\* Failed: the verdict is Degraded
C17_Witness ==
    /\ Analyzed
    /\ HasRecord(StatusPending)
    /\ HasIssue(SeverityWarning)
    /\ ~HasIssue(SeverityCritical)
    /\ ~HasRecord(StatusFailed)
    /\ Summary.ClusterHealth = StatusDegraded

\* C18: when no condition of any record is in state False or Unknown (the
\* records have only True conditions or none) and the statuses are the
\* derived ones, there are no issues and the overall health is Healthy.
C18_AllTrueIsHealthy ==
    Analyzed =>
        ( (\A k \in 1..N : \A j \in DOMAIN components[k].Conditions :
              components[k].Conditions[j].Status = ConditionTrue)
          => /\ Issues = <<>>
             /\ Summary.ClusterHealth = StatusHealthy )

\* a record without conditions (status Unknown) and a record with two True
\* conditions were analysed
C18_Witness ==
    /\ Analyzed
    /\ N = 2
    /\ components[1].Conditions = <<>>
    /\ components[1].Status = StatusUnknown
    /\ Len(components[2].Conditions) = 2
    /\ \A j \in 1..2 : components[2].Conditions[j].Status = ConditionTrue
    /\ Issues = <<>>

\* the guidance categories in the order of the claim: the block of each, and
\* the words that make a lower-cased reason or message fall under it
GuidanceCategories ==
    << [Block |-> BMCGuidance,
        InReason |-> {"bmc", "connection"}, InMessage |-> {"ipmi", "bmc"}],
       [Block |-> ImageGuidance,
        InReason |-> {"image"}, InMessage |-> {"image", "download", "http"}],
       [Block |-> NetworkGuidance,
        InReason |-> {"timeout"},
        InMessage |-> {"timeout", "connection refused", "network"}],
       [Block |-> CertificateGuidance,
        InReason |-> {"certificate"}, InMessage |-> {"certificate", "tls", "x509"}],
       [Block |-> ResourceGuidance,
        InReason |-> {"insufficient"},
        InMessage |-> {"insufficient", "no available", "quota"}],
       [Block |-> AuthGuidance,
        InReason |-> {"auth"}, InMessage |-> {"auth", "permission", "forbidden"}],
       [Block |-> WaitingGuidance,
        InReason |-> {"waiting", "pending"}, InMessage |-> {"waiting"}] >>

\* the categories a condition falls under
CategoriesOf(condition) ==
    {c \in DOMAIN GuidanceCategories :
        \/ \E w \in GuidanceCategories[c].InReason :
              Contains(ToLower(condition.Reason), w)
        \/ \E w \in GuidanceCategories[c].InMessage :
              Contains(ToLower(condition.Message), w)}

\* C19: the guidance categories are tested in the order connectivity/BMC,
\* image, network/timeout, certificate, resource exhaustion, authorization,
\* dependency wait, and the resolution of an issue, rule-matched or generic,
\* holds the block of the first category its condition falls under and no
\* other block; the reason BMCConnectionTimeout gets the BMC block and not
\* the network/timeout block.
C19_FirstMatchingGuidance ==
    Analyzed =>
        \A x \in DOMAIN Issues :
            LET matching == CategoriesOf(Issues[x].Condition) IN
            /\ \A c \in DOMAIN GuidanceCategories :
                  Contains(Issues[x].Resolution, GuidanceCategories[c].Block)
                     <=> (c \in matching /\ \A d \in matching : c <= d)
            /\ Issues[x].Condition.Reason = "BMCConnectionTimeout" =>
                  /\ Contains(Issues[x].Resolution, BMCGuidance)
                  /\ ~Contains(Issues[x].Resolution, NetworkGuidance)

\* a generic issue whose reason BMCConnectionTimeout falls under the BMC and
\* the network category and whose message falls under two more got the BMC
\* block
C19_Witness ==
    /\ Analyzed
    /\ Len(Issues) = 1
    /\ IsGeneric(Issues[1])
    /\ Issues[1].Condition.Reason = "BMCConnectionTimeout"
    /\ Issues[1].Condition.Message = "TLS handshake Timeout"
    /\ Cardinality(CategoriesOf(Issues[1].Condition)) = 3
    /\ Contains(Issues[1].Resolution, BMCGuidance)

\* the dependency kinds of the entry an issue matched
KindsOf(issue) ==
    knowledgeBase[KeyOf(issue.Component, issue.Condition)].Dependencies

\* where a kind stands in a list of kinds, and a record in a children list
KindIndex(kinds, kind) == Min({x \in DOMAIN kinds : kinds[x] = kind})
ChildIndex(p, c) == Min({x \in DOMAIN Children[p] : Children[p][x] = c})

\* C20: the related resources of a rule-matched issue on record r are the
\* children of r and the other children of r's parent that are of a kind the
\* rule lists, each once: ordered by the kind's place in the rule's list, for
\* one kind the children of r before the siblings, and within each group in
\* the stored order of the children list; r itself never occurs. An issue
\* without a rule has no related resources.
C20_RelatedResources ==
    Analyzed =>
        \A x \in DOMAIN Issues :
            LET issue == Issues[x]
                r == issue.Component
                deps == issue.Dependencies
            IN  /\ IsGeneric(issue) => deps = <<>>
                /\ ~IsGeneric(issue) =>
                      /\ Range(deps) =
                            {c \in 1..N :
                                /\ components[c].Type \in Range(KindsOf(issue))
                                /\ \/ Parent[c] = r
                                   \/ Parent[r] # 0 /\ Parent[c] = Parent[r] /\ c # r}
                      /\ r \notin Range(deps)
                      /\ \A a, b \in DOMAIN deps : a # b => deps[a] # deps[b]
                      /\ \A a, b \in DOMAIN deps : a < b =>
                            LET ka == KindIndex(KindsOf(issue), components[deps[a]].Type)
                                kb == KindIndex(KindsOf(issue), components[deps[b]].Type)
                            IN  \/ ka < kb
                                \/ /\ ka = kb
                                   /\ Parent[deps[a]] = r
                                   /\ Parent[deps[b]] # r
                                \/ /\ ka = kb
                                   /\ Parent[deps[a]] = Parent[deps[b]]
                                   /\ ChildIndex(Parent[deps[a]], deps[a])
                                         < ChildIndex(Parent[deps[b]], deps[b])

\* an analysed tree in which the issue of a KubeadmControlPlane lists a
\* Machine that is another child of its parent, and the ControlPlaneReady
\* issue of a Cluster lists its two children in the order of the rule's kinds,
\* the reverse of the order of its children list
C20_Witness ==
    /\ Analyzed
    /\ \E x \in DOMAIN Issues :
          /\ components[Issues[x].Component].Type = KubeadmControlPlaneType
          /\ Len(Issues[x].Dependencies) = 1
          /\ Parent[Issues[x].Component] # 0
          /\ Parent[Issues[x].Dependencies[1]] = Parent[Issues[x].Component]
    /\ \E x \in DOMAIN Issues :
          /\ components[Issues[x].Component].Type = ClusterType
          /\ Issues[x].Condition.Type = "ControlPlaneReady"
          /\ Len(Issues[x].Dependencies) = 2
          /\ Children[Issues[x].Component]
                = <<Issues[x].Dependencies[2], Issues[x].Dependencies[1]>>

\* the sum of the counters of a map
RECURSIVE SumOver(_, _)
SumOver(counts, keys) ==
    IF keys = {} THEN 0
    ELSE LET key == CHOOSE key \in keys : TRUE
         IN  counts[key] + SumOver(counts, keys \ {key})

Statuses ==
    {StatusHealthy, StatusDegraded, StatusFailed, StatusPending, StatusUnknown}

\* C21: in the result the counter of a status is the number of input records
\* of that status and the counter of a severity is the number of issues of
\* that severity; the status counters sum to the number of records, which is
\* the reported total, and the severity counters sum to the number of issues.
C21_CountsTally ==
    Analyzed =>
        /\ \A status \in Statuses \cup DOMAIN Summary.StatusCounts :
              At(Summary.StatusCounts, status)
                 = Cardinality({k \in 1..N : components[k].Status = status})
        /\ \A severity \in Severities \cup DOMAIN Summary.SeverityCounts :
              At(Summary.SeverityCounts, severity)
                 = Cardinality({x \in DOMAIN Issues : Issues[x].Severity = severity})
        /\ Summary.TotalComponents = N
        /\ SumOver(Summary.StatusCounts, DOMAIN Summary.StatusCounts) = N
        /\ SumOver(Summary.SeverityCounts, DOMAIN Summary.SeverityCounts) = Len(Issues)

\* two records of one status with two Critical issues and a Warning between
\* them were counted
C21_Witness ==
    /\ Analyzed
    /\ N = 2
    /\ components[1].Status = components[2].Status
    /\ At(Summary.StatusCounts, components[1].Status) = 2
    /\ At(Summary.SeverityCounts, SeverityCritical) = 2
    /\ At(Summary.SeverityCounts, SeverityWarning) = 1

(***************************************************************************)
(* Properties of the builder's steps                                       *)
(***************************************************************************)
\* the reference ref of record k names an indexed record t of the kind
UsableRef(k, ref, compType, t) ==
    /\ components[k].hasSpec
    /\ ResolvesTo(ref, components[k].Namespace, compType, t)

\* record c names record p in its ownerReferences
NamesOwner(c, p) ==
    /\ components[c].hasMetadata
    /\ \E r \in DOMAIN components[c].ownerReferences :
          /\ components[c].ownerReferences[r].name = components[p].Name
          /\ components[c].ownerReferences[r].kind = components[p].Type

\* the kind an ownership scan of a record of this kind looks for
OwnedKind(type) ==
    IF type = MachineDeploymentType THEN MachineSetType ELSE MachineType

\* the rule of record k, the record whose step it is, that gives c the parent p
ByForwardRef(k, p, c) ==
    \/ /\ k = c /\ components[k].Type = MachineType
       /\ UsableRef(k, components[k].clusterName, ClusterType, p)
    \/ /\ k = p /\ components[k].Type = MachineType
       /\ \/ UsableRef(k, components[k].infrastructureRef, Metal3MachineType, c)
          \/ UsableRef(k, components[k].bootstrapConfigRef, KubeadmConfigType, c)
    \/ /\ k = p /\ components[k].Type = ClusterType
       /\ \/ UsableRef(k, components[k].infrastructureRef, Metal3ClusterType, c)
          \/ UsableRef(k, components[k].controlPlaneRef, KubeadmControlPlaneType, c)

ByOwnership(k, p, c) ==
    /\ k = p
    /\ components[k].Type
          \in {MachineSetType, MachineDeploymentType, KubeadmControlPlaneType}
    /\ Indexed(c)
    /\ components[c].Type = OwnedKind(components[k].Type)
    /\ NamesOwner(c, p)

BySelector(k, p, c) ==
    /\ k = p /\ components[k].Type = Metal3MachineType
    /\ components[k].hasSpec /\ IsString(components[k].hostSelector)
    /\ Indexed(c)
    /\ components[c].Type = BareMetalHostType
    /\ components[c].Namespace = components[k].Namespace

Justified(k, p, c) ==
    ByForwardRef(k, p, c) \/ ByOwnership(k, p, c) \/ BySelector(k, p, c)

\* one step of the relationship loop sets exactly the edges its record's
\* usable references give
StepFollowsReferences ==
    (pc = "build" /\ i <= N) =>
        /\ \A c \in 1..N :
              Parent'[c] # Parent[c] => Parent[c] = 0 /\ Justified(i, Parent'[c], c)
        /\ \A p, c \in 1..N :
              (ByForwardRef(i, p, c) \/ ByOwnership(i, p, c)) /\ Parent[c] = 0
                  => Parent'[c] = p
        /\ (\E c \in 1..N : BySelector(i, i, c))
              => \E c \in 1..N : BySelector(i, i, c) /\ Parent'[c] # 0
        /\ \A p \in 1..N :
              Range(Children'[p]) =
                  Range(Children[p]) \cup {c \in 1..N : Parent'[c] # Parent[c] /\ Parent'[c] = p}

\* C22: a record without spec or metadata, a reference field that is absent
\* or of the wrong type, and a reference that names no indexed record of the
\* expected kind and namespace give no edge; every step sets exactly the
\* edges of the usable references of its record, whatever else the record
\* carries; and every build arrives at the returned roots.
C22_UnusableReferencesGiveNoEdge ==
    /\ [][StepFollowsReferences]_vars
    /\ <>Done

\* a finished build over a Machine whose clusterName has the wrong type and
\* whose bootstrap reference is absent, and a Machine whose clusterName names
\* nothing and whose infrastructure reference is set all the same, to a
\* record without spec and metadata
C22_Witness ==
    /\ Done
    /\ \E m \in 1..N :
          /\ components[m].clusterName = WrongType
          /\ components[m].bootstrapConfigRef = Absent
          /\ Parent[m] = 0
    /\ \E m, c \in 1..N :
          /\ components[m].Type = MachineType
          /\ IsString(components[m].clusterName)
          /\ ~\E t \in 1..N : ResolvesTo(components[m].clusterName, components[m].Namespace, ClusterType, t)
          /\ ResolvesTo(components[m].infrastructureRef, components[m].Namespace, Metal3MachineType, c)
          /\ Parent[m] = 0
          /\ Parent[c] = m
          /\ ~components[c].hasSpec /\ ~components[c].hasMetadata
          /\ Children[c] = <<>>

\* C23: the issue about the InfrastructureReady=False condition of a Machine
\* whose child is a Metal3Machine that has a BareMetalHost as child lists
\* both, the Metal3Machine and the BareMetalHost, as related resources.
C23_HostOfFailingMachineListed ==
    Analyzed =>
        \A x \in DOMAIN Issues : \A m3m, bmh \in 1..N :
            LET m == Issues[x].Component IN
            (/\ components[m].Type = MachineType
             /\ Issues[x].Condition.Type = "InfrastructureReady"
             /\ Issues[x].Condition.Status = ConditionFalse
             /\ components[m3m].Type = Metal3MachineType /\ Parent[m3m] = m
             /\ components[bmh].Type = BareMetalHostType /\ Parent[bmh] = m3m)
                => {m3m, bmh} \subseteq Range(Issues[x].Dependencies)

\* record e has the identity of a record that stands later in the input
IsEarlierDuplicate(e) ==
    \E l \in 1..N : e < l /\ getComponentKey(components[e]) = getComponentKey(components[l])

\* C24: of two records with one identity the later one wins throughout: the
\* index, and so every lookup, holds the later record, and the earlier record
\* ends without parent and without children, all edges of the identity being
\* edges of the later record.
C24_LastWinsThroughout ==
    Done =>
        \A e \in 1..N :
            IsEarlierDuplicate(e) =>
                /\ ~Indexed(e)
                /\ Parent[e] = 0
                /\ Children[e] = <<>>
                /\ \A p \in 1..N : ~IsChildOf(e, p)

\* a step leaves a record that has a parent where it is: same parent, and no
\* children list gains or loses it
ParentIsKept ==
    \A c \in 1..N :
        Parent[c] # 0 =>
            /\ Parent'[c] = Parent[c]
            /\ \A p \in 1..N : Count(Children'[p], c) = Count(Children[p], c)

\* C25: the first edge wins: once a record has a parent, no step of the same
\* build changes or clears that parent, and an edge set for a child that has
\* a parent changes neither the parent nor any children list.
C25_FirstEdgeWins == [][ParentIsKept]_vars

\* a Machine that names two indexed owners, both of whose scans have run: it
\* is the child of the first and only of the first
C25_Witness ==
    /\ Done
    /\ \E c, p, q \in 1..N :
          /\ p < q
          /\ ByOwnership(p, p, c) /\ ByOwnership(q, q, c)
          /\ Parent[c] = p
          /\ Count(Children[p], c) = 1
          /\ ~IsChildOf(c, q)

(***************************************************************************)
(* Properties of the two passes side by side                               *)
(***************************************************************************)
Returned == DOMAIN result # {}

\* an issue, and a result, without the related resources
WithoutDependencies(issue) ==
    [Component |-> issue.Component, Condition |-> issue.Condition,
     Severity |-> issue.Severity, Description |-> issue.Description,
     Cause |-> issue.Cause, Resolution |-> issue.Resolution]

GraphFree(res) ==
    [Issues |-> [x \in DOMAIN res.Issues |-> WithoutDependencies(res.Issues[x])],
     Summary |-> res.Summary]

\* what AnalyzeComponents returns for the records when their edges are those of g
AnalysisOver(g) == analysisResult(ComponentLoop(g, 1))

\* a step of the analysis touches no record and no edge; a step of the build
\* touches nothing but edges and its own index, position and roots
PassesKeepApart ==
    /\ (scan' # scan \/ result' # result)
          => UNCHANGED <<components, Parent, Children, tb_components, pc, i, roots>>
    /\ (Parent' # Parent \/ Children' # Children \/ tb_components' # tb_components
          \/ pc' # pc \/ i' # i \/ roots' # roots)
          => UNCHANGED <<components, scan, result>>

\* C26: the two passes do not conflict. A step of AnalyzeComponents changes
\* no parent, children, condition or status, a step of BuildDependencyTree
\* changes edges only; however the steps of the two are interleaved, the
\* result but for the related resources (the issues' record, condition,
\* severity, description, cause and resolution, the counts and the overall
\* health) is that of an analysis of the records without any edge; and when
\* the build had returned before the analysis took its first record, the
\* related resources too are those of the finished graph.
C26_PassesDoNotConflict ==
    /\ [][PassesKeepApart]_vars
    /\ [](Returned => GraphFree(result) = GraphFree(AnalysisOver(NoEdges(N))))
    /\ [](Returned /\ scan.start = "done" => result = AnalysisOver(G))

\* an analysis that took its first record before the build had set an edge
\* and has returned after the build: its related resources are not those of
\* the finished graph, the rest of its result is
C26_Witness ==
    /\ Returned /\ Done
    /\ scan.start = "index"
    /\ \E c \in 1..N : Parent[c] # 0
    /\ result # AnalysisOver(G)
    /\ GraphFree(result) = GraphFree(AnalysisOver(G))

(***************************************************************************)
(* Properties of the printed tree                                          *)
(***************************************************************************)
Printed == pc = "printed"

\* the places of the lines written for record k itself
HeadLines(k) == {x \in DOMAIN output : output[x].Record = k /\ output[x].Condition = 0}
HeadLine(k) == CHOOSE x \in HeadLines(k) : TRUE

\* the number of parents above record k
RECURSIVE Distance(_, _)
Distance(k, fuel) ==
    IF Parent[k] = 0 \/ fuel = 0 THEN 0 ELSE 1 + Distance(Parent[k], fuel - 1)

\* C27: PrintTree on the returned roots ends, and its lines are a depth-first
\* walk in pre-order: every input record has exactly one line of its own,
\* followed at once by one line per condition in the order of the record's
\* list; the line of a record stands after that of its parent, the parent's
\* being the nearest earlier line one level up, and the children of a record
\* stand in the order of its children list; the roots stand in the order
\* returned; the indentation of a record is two spaces per parent above it.
C27_PrintTreeIsPreOrderWalk ==
    Printed =>
        /\ \A x \in DOMAIN output : output[x] # Endless
        /\ Len(output) = N + SumOver([k \in 1..N |-> Len(components[k].Conditions)], 1..N)
        /\ \A k \in 1..N :
              /\ Cardinality(HeadLines(k)) = 1
              /\ output[HeadLine(k)] = ComponentLine(k, Distance(k, N))
              /\ \A c \in DOMAIN components[k].Conditions :
                    /\ output[HeadLine(k) + c].Record = k
                    /\ output[HeadLine(k) + c].Condition = c
                    /\ output[HeadLine(k) + c].Text =
                          components[k].Conditions[c].Type \o ": "
                              \o components[k].Conditions[c].Message
                    /\ output[HeadLine(k) + c].Indent = output[HeadLine(k)].Indent \o "  "
              /\ Parent[k] # 0 =>
                    /\ HeadLine(Parent[k]) < HeadLine(k)
                    /\ \A j \in 1..N :
                          (HeadLine(Parent[k]) < HeadLine(j) /\ HeadLine(j) < HeadLine(k))
                              => Distance(j, N) >= Distance(k, N)
              /\ \A a, b \in DOMAIN Children[k] :
                    a < b => HeadLine(Children[k][a]) < HeadLine(Children[k][b])
        /\ \A a, b \in DOMAIN roots : a < b => HeadLine(roots[a]) < HeadLine(roots[b])

\* the printed tree of a record with a child that has a child of its own, and
\* of a record with two children, each record with conditions
C27_Witness ==
    /\ Printed
    /\ \E k \in 1..N : Distance(k, N) = 2 /\ Len(output[HeadLine(k)].Indent) = 4
    /\ \E k \in 1..N : Len(Children[k]) = 2 /\ Len(components[k].Conditions) = 2

\* C28: when the analysis returns no issue, the case in which the report
\* reads "No issues found! All components are healthy.", every analysed
\* record has the derived status Healthy.
C28_NoIssuesMeansAllHealthy ==
    (Analyzed /\ Issues = <<>>) =>
        \A k \in 1..N : components[k].Status = StatusHealthy

\* C29: every edge connects two records of one namespace, whichever rule set
\* it: forward reference, ownership or selector.
C29_EdgesStayInNamespace ==
    \A c \in 1..N :
        Parent[c] # 0 => components[Parent[c]].Namespace = components[c].Namespace

\* the pairs of kinds, parent first, that the rules of the builder connect
EdgeKinds ==
    { <<ClusterType, MachineType>>,
      <<ClusterType, Metal3ClusterType>>,
      <<ClusterType, KubeadmControlPlaneType>>,
      <<MachineSetType, MachineType>>,
      <<KubeadmControlPlaneType, MachineType>>,
      <<MachineDeploymentType, MachineSetType>>,
      <<MachineType, Metal3MachineType>>,
      <<MachineType, KubeadmConfigType>>,
      <<Metal3MachineType, BareMetalHostType>> }

\* C30: the kinds of the two ends of every edge are one of the nine pairs of
\* the rules; a Cluster and a MachineDeployment never get a parent and are
\* among the returned roots; a BareMetalHost, a KubeadmConfig and a
\* Metal3Cluster never have children.
C30_EdgesFollowKindHierarchy ==
    /\ \A c \in 1..N :
          /\ Parent[c] # 0 =>
                <<components[Parent[c]].Type, components[c].Type>> \in EdgeKinds
          /\ \A x \in DOMAIN Children[c] :
                <<components[c].Type, components[Children[c][x]].Type>> \in EdgeKinds
    /\ \A k \in 1..N :
          /\ components[k].Type \in {ClusterType, MachineDeploymentType} =>
                /\ Parent[k] = 0
                /\ Done => k \in Range(roots)
          /\ components[k].Type
                \in {BareMetalHostType, KubeadmConfigType, Metal3ClusterType} =>
                Children[k] = <<>>

\* a finished build with three levels of edges: a Cluster, returned as root,
\* above a Machine above a Metal3Machine above a BareMetalHost without children
C30_Witness ==
    /\ Done
    /\ \E cl, m, m3m, bmh \in 1..N :
          /\ components[cl].Type = ClusterType /\ cl \in Range(roots)
          /\ components[m].Type = MachineType /\ Parent[m] = cl
          /\ components[m3m].Type = Metal3MachineType /\ Parent[m3m] = m
          /\ components[bmh].Type = BareMetalHostType /\ Parent[bmh] = m3m
          /\ Children[bmh] = <<>>

====
